---- MODULE Spec2Model ----
(***************************************************************************)
(* vmcircbuffer: the circular coordination engine (src/src/generic.rs)     *)
(* under the blocking facade (src/src/sync.rs).  One writer, readers kept  *)
(* in a slab, cursors as (offset, ab) pairs, arm/notify notifiers that     *)
(* feed one channel per party, and the item cells of the double mapped     *)
(* buffer.  The facade instantiates the engine without metadata            *)
(* (NoMetadata: add/get/consume do nothing), so no tag state is kept.      *)
(* Further parts: the construction of the double mapping on POSIX          *)
(* (src/src/double_mapped_buffer/unix.rs), a notifier driven on its own,   *)
(* and the pipeline of src/examples/sdr.rs.                                *)
(***************************************************************************)
EXTENDS Integers, Sequences, FiniteSets, TLC

\* Bounds of the model.
Capacity == 2
MaxReaders == 2

Keys == 0..(MaxReaders - 1)
Cells == 0..(Capacity - 1)
\* Item values the writer may store; two values tell any two cells apart.
Items == {0, 1}
\* Arguments tried for produce/consume: 0, every legal amount, one too many.
Amounts == 0..(Capacity + 1)
\* Builds with debug assertions evaluate the debug_assert! lines.
DebugAssertions == TRUE

\* Bounds of the construction model: usize is WordBits wide, item sizes tried.
WordBits == 5
MaxItemSize == 3
\* usize values are 0..(Word - 1).
Word == 2 ^ WordBits
\* pagesize(): the page size (allocation granularity on Windows).
PageSize == 4
\* DoubleMappedBufferImpl::new: for _ in 0..5.
Retries == 5

\* Bounds of the pipeline model: copy stages between source and sink, and the
\* length of the source's input.
NCopy == 1
InputLen == 3

\* Bound of the statement-level model of the critical sections: readers
\* attached at a time.
LockedReaders == 1

\* Bound of the notifier model: calls of arm().
MaxArmCalls == 5
\* asynchronous.rs: channel(1); with its one sender the channel holds one more.
AsyncChannelBuffer == 1

VARIABLES
    writer_offset,  \* State.writer_offset
    writer_ab,      \* State.writer_ab
    writer_done,    \* State.writer_done
    readers,        \* State.readers: slab key -> ReaderState or a vacant slot
    slab_free,      \* the slab's stack of vacated keys (next key to hand out first)
    w_last_space,   \* generic::Writer.last_space
    w_pc,           \* where the writer thread is: idle, wait, retry, panicked, dropped
    w_chan,         \* signals queued in sync::Writer.chan
    r_last_space,   \* generic::Reader.last_space, per key
    r_pc,           \* where each reader thread is: absent, idle, wait, retry, panicked
    r_chan,         \* signals queued in sync::Reader.chan, per key
    r_result,       \* what the reader's last slice/try_slice returned: "-", Some, None
    buffer,         \* the Capacity item cells behind both mappings
    meta,           \* ReaderState.meta, per key: the item indices of the tags it holds
    pending,        \* history: items produced since the reader attached, not yet consumed
    starved,        \* history: when the writer's last request found every reader full: those that have not consumed since
    relieved,       \* history: when the writer's last request found every reader full: those that have consumed since
    munmaps,        \* how often Drop for DoubleMappedBufferImpl has unmapped the region
    min_items,      \* DoubleMappedBufferImpl::new: argument min_items
    item_size,      \* DoubleMappedBufferImpl::new: argument item_size
    alignment,      \* DoubleMappedBufferImpl::new: argument alignment
    overflow_checks, \* the build profile: is usize arithmetic checked (panic) or wrapping
    attempt,        \* which call of new_try is running: 1..Retries in the loop, Retries + 1 after it
    c_pc,           \* the next step of new_try: size, mkstemp, ..., close; done, panicked
    size,           \* new_try: local size, in bytes
    fd,             \* new_try: the temporary file's descriptor: none, open, closed
    linked,         \* does the temporary file still have its name
    file_len,       \* length of the temporary file in bytes
    buff,           \* new_try: base address of the placeholder mapping, -1 before it
    first_half,     \* file offset mapped at [buff, buff + size), -1 if unmapped
    second_half,    \* file offset mapped at [buff + size, buff + 2 * size), -1 if unmapped
    leaked,         \* address ranges of size bytes that failed attempts left mapped
    ret,            \* new: result of the most recent new_try: none, Ok, or the error
    trace,          \* history: the steps the most recent new_try executed, in order
    n_kind,         \* a notifier on its own: blocking (sync.rs) or async (asynchronous.rs)
    n_armed,        \* its field armed
    n_chan,         \* signals queued in the channel its chan sends to
    n_arms,         \* history: calls of arm()
    n_sent,         \* history: calls of chan.send / chan.try_send
    pipe,           \* the pipeline of examples/sdr.rs: per buffer, the shared state and both handles
    t_pc,           \* the pipeline: where each thread is
    src_i,          \* the pipeline: VectorSource's index i into the input
    sink_items,     \* the pipeline: Sink's items
    mutex,          \* State's Mutex: who holds it
    w_call,         \* the produce(n) the writer is inside: n and the cursor it found
    r_call          \* the consume(n) each reader is inside: n, per key

vars == << writer_offset, writer_ab, writer_done, readers, slab_free,
           w_last_space, w_pc, w_chan, r_last_space, r_pc, r_chan, r_result,
           buffer, meta, pending, starved, relieved, munmaps,
           min_items, item_size, alignment, overflow_checks, attempt, c_pc, size,
           fd, linked, file_len, buff, first_half, second_half, leaked, ret,
           trace, n_kind, n_armed, n_chan, n_arms, n_sent, pipe, t_pc, src_i,
           sink_items, mutex, w_call, r_call >>

\* A notifier driven on its own.
notifier == << n_kind, n_armed, n_chan, n_arms, n_sent >>

\* The pipeline of examples/sdr.rs.
pipeline == << pipe, t_pc, src_i, sink_items >>

\* The state mutex and the calls of produce and consume in progress.
locking == << mutex, w_call, r_call >>

\* The writer, its readers and the region, as every handle sees them.
circular == << writer_offset, writer_ab, writer_done, readers, slab_free, meta,
              w_last_space, w_pc, w_chan, r_last_space, r_pc, r_chan, r_result,
              buffer, pending, starved, relieved, munmaps, mutex, w_call, r_call >>

\* The state of DoubleMappedBufferImpl::new and new_try.
mapping == << min_items, item_size, alignment, overflow_checks, attempt, c_pc, size,
             fd, linked, file_len, buff, first_half, second_half, leaked, ret,
             trace >>

engine == << writer_offset, writer_ab, writer_done, readers, slab_free, meta >>

Min(a, b) == IF a < b THEN a ELSE b

\* A vacant slab slot.  The fields of a vacant slot are never read.
Vacant == [vacant |-> TRUE, ab |-> FALSE, offset |-> 0,
           reader_notifier |-> FALSE, writer_notifier |-> FALSE]

\* struct ReaderState; a notifier is its `armed` flag (BlockingNotifier.armed),
\* its `chan` is the channel of the party it wakes.
ReaderStateAtOrigin(ab, offset) ==
    [vacant |-> FALSE, ab |-> FALSE, offset |-> 0,
     reader_notifier |-> FALSE, writer_notifier |-> FALSE]
ReaderState(ab, offset) ==
    [vacant |-> FALSE, ab |-> ab, offset |-> offset,
     reader_notifier |-> FALSE, writer_notifier |-> FALSE]

Occupied == {k \in Keys : ~readers[k].vacant}

\* Slab::insert hands out the most recently vacated key, else the next new one.
SlabInsertKey == IF slab_free # << >> THEN Head(slab_free) ELSE Cardinality(Occupied)

\* Writer::produce, the generation bit and the offset after n items.
ProduceAbNoFlipAtEnd(ab, offset, n) == IF offset + n > Capacity THEN ~ab ELSE ab
ProduceAb(ab, offset, n) == IF offset + n >= Capacity THEN ~ab ELSE ab
ProduceOffsetStopsAtEnd(offset, n) == IF offset + n >= Capacity THEN 0 ELSE offset + n
ProduceOffset(offset, n) == (offset + n) % Capacity

\* Reader::consume, the generation bit and the offset after n items.
ConsumeAbNoFlipAtEnd(ab, offset, n) == IF offset + n > Capacity THEN ~ab ELSE ab
ConsumeAb(ab, offset, n) == IF offset + n >= Capacity THEN ~ab ELSE ab
ConsumeOffsetPastEnd(offset, n) == offset + n
ConsumeOffset(offset, n) == (offset + n) % Capacity

\* Writer::space_and_offset, the space one reader leaves the writer.
WriterSpaceForIgnoringAb(w_off, w_ab, r_off, r_ab) ==
    IF w_off > r_off THEN r_off + Capacity - w_off
    ELSE IF w_off < r_off THEN r_off - w_off
    ELSE Capacity
WriterSpaceFor(w_off, w_ab, r_off, r_ab) ==
    IF w_off > r_off THEN r_off + Capacity - w_off
    ELSE IF w_off < r_off THEN r_off - w_off
    ELSE IF r_ab = w_ab THEN Capacity
    ELSE 0

\* The loop of Writer::space_and_offset over the slab in key order, from key k
\* with the minimum so far: the space, and the key at which the loop broke
\* (the reader whose writer_notifier is armed when arm is set), or -1.
RECURSIVE SpaceLoop(_, _)
RECURSIVE SpaceLoopVacantIsReader(_, _)
SpaceLoopVacantIsReader(k, space) ==
    IF k >= MaxReaders THEN [space |-> space, full |-> -1]
    ELSE LET s == WriterSpaceFor(writer_offset, writer_ab,
                                 readers[k].offset, readers[k].ab)
         IN IF s = 0 THEN [space |-> Min(space, s), full |-> k]
            ELSE SpaceLoopVacantIsReader(k + 1, Min(space, s))
RECURSIVE SpaceLoopLastWins(_, _)
SpaceLoopLastWins(k, space) ==
    IF k >= MaxReaders THEN [space |-> space, full |-> -1]
    ELSE IF readers[k].vacant THEN SpaceLoopLastWins(k + 1, space)
    ELSE LET s == WriterSpaceFor(writer_offset, writer_ab,
                                 readers[k].offset, readers[k].ab)
         IN IF s = 0 THEN [space |-> s, full |-> k]
            ELSE SpaceLoopLastWins(k + 1, s)
RECURSIVE SpaceLoopFirstOnly(_, _)
SpaceLoopFirstOnly(k, space) ==
    IF k >= MaxReaders THEN [space |-> space, full |-> -1]
    ELSE IF readers[k].vacant THEN SpaceLoopFirstOnly(k + 1, space)
    ELSE LET s == WriterSpaceFor(writer_offset, writer_ab,
                                 readers[k].offset, readers[k].ab)
         IN [space |-> Min(space, s), full |-> IF s = 0 THEN k ELSE -1]
SpaceLoop(k, space) ==
    IF k >= MaxReaders THEN [space |-> space, full |-> -1]
    ELSE IF readers[k].vacant THEN SpaceLoop(k + 1, space)
    ELSE LET s == WriterSpaceFor(writer_offset, writer_ab,
                                 readers[k].offset, readers[k].ab)
         IN IF s = 0 THEN [space |-> Min(space, s), full |-> k]
            ELSE SpaceLoop(k + 1, Min(space, s))

\* Writer::space_and_offset(_).0
WriterSpace == SpaceLoop(0, Capacity).space

\* Reader::space_and_offset_and_meta, the span of the reader with cursor (r_off, r_ab).
ReaderSpaceForIgnoringAb(w_off, w_ab, r_off, r_ab) ==
    IF r_off > w_off THEN w_off + Capacity - r_off
    ELSE IF r_off < w_off THEN w_off - r_off
    ELSE 0
ReaderSpaceFor(w_off, w_ab, r_off, r_ab) ==
    IF r_off > w_off THEN w_off + Capacity - r_off
    ELSE IF r_off < w_off THEN w_off - r_off
    ELSE IF r_ab = w_ab THEN 0
    ELSE Capacity

\* Reader::space_and_offset_and_meta(_).0 of the reader with key k.
ReaderSpace(k) ==
    ReaderSpaceFor(writer_offset, writer_ab, readers[k].offset, readers[k].ab)

\* The items of the window of length len that starts at item offset off:
\* slice_with_offset(off)[0..len], item off + i of the double mapping being
\* cell (off + i) mod Capacity of the backing region.
Window(buf, off, len) == [i \in 1..len |-> buf[(off + i - 1) % Capacity]]

\* The cells a window addresses.
WindowCells(off, len) == {(off + i) % Capacity : i \in 0..(len - 1)}

\* Metadata as examples/tags.rs implements it, a tag being its item index.
\* Metadata::new
MetaNew == << >>

\* Metadata::add(offset, tags): the tags shifted by offset, appended.
MetaAddUnshifted(m, offset, tags) == m \o tags
MetaAdd(m, offset, tags) == m \o [i \in 1..Len(tags) |-> tags[i] + offset]

\* Metadata::get: the tags a reader's slice reports, a copy of the list.
MetaGet(m) == m

\* Metadata::consume(items): keep the tags at items or later, shifted down.
RECURSIVE MetaConsume(_, _)
MetaConsume(m, items) ==
    IF m = << >> THEN << >>
    ELSE IF Head(m) >= items
         THEN << Head(m) - items >> \o MetaConsume(Tail(m), items)
         ELSE MetaConsume(Tail(m), items)

\* The tag lists tried with produce(n, tags): none, or one tag on one of the
\* n items.
TagLists(n) == {<< >>} \cup {<< i >> : i \in 0..(n - 1)}

\* The steps of new_try in program order, and the error each one returns.
StepOrder == << "mkstemp", "unlink", "truncate_double", "placeholder", "alignment",
               "unmap_second", "map_second", "truncate_single", "close" >>
StepError == [mkstemp |-> "Create", unlink |-> "Unlink", truncate_double |-> "Truncate",
              placeholder |-> "Placeholder", alignment |-> "Alignment",
              unmap_second |-> "UnmapSecond", map_second |-> "MapSecond",
              truncate_single |-> "Truncate", close |-> "Close"]

\* The pipeline: buffer b is written by thread b and read by thread b + 1;
\* thread 0 is the source, the last thread the sink, the others copy.
Buffers == 0..NCopy
Threads == 0..(NCopy + 1)
SinkThread == NCopy + 1
\* The source's input vector.
Input == [i \in 1..InputLen |-> i]

\* A buffer of the pipeline after Circular::with_capacity and add_reader: the
\* shared state with its one reader, the cells, and what the two handles and
\* their channels hold.
PipeBuffer ==
    [writer_offset |-> 0, writer_ab |-> FALSE, writer_done |-> FALSE,
     reader |-> ReaderState(FALSE, 0), cells |-> [c \in Cells |-> 0],
     w_last |-> 0, r_last |-> 0, w_chan |-> 0, r_chan |-> 0]

\* A thread's position: the statement it is at and the n it computed.
At(stmt, n) == [at |-> stmt, n |-> n]

\* No pipeline is running.
PipelineIdle ==
    /\ pipe = [b \in Buffers |-> PipeBuffer]
    /\ t_pc = [t \in Threads |-> At("unspawned", 0)]
    /\ src_i = 0
    /\ sink_items = << >>

\* The mutex held by nobody, by the writer, by the reader with key k.
Unlocked == [by |-> "nobody", key |-> 0]
HeldByWriter == [by |-> "writer", key |-> 0]
HeldByReader(k) == [by |-> "reader", key |-> k]

\* The writer is inside no produce; it is inside produce(n), called with the
\* cursor at offset and ab.
NoCall == [n |-> 0, offset |-> 0, ab |-> FALSE]
CallOf(n, offset, ab) == [n |-> n, offset |-> offset, ab |-> ab]

\* The writer and its readers right after Circular::with_capacity.
InitCircular ==
    /\ writer_offset = 0
    /\ writer_ab = FALSE
    /\ writer_done = FALSE
    /\ readers = [k \in Keys |-> Vacant]
    /\ slab_free = << >>
    /\ w_last_space = 0
    /\ w_pc = "idle"
    /\ w_chan = 0
    /\ r_last_space = [k \in Keys |-> 0]
    /\ r_pc = [k \in Keys |-> "absent"]
    /\ r_chan = [k \in Keys |-> 0]
    /\ r_result = [k \in Keys |-> "-"]
    /\ buffer = [c \in Cells |-> 0]
    /\ meta = [k \in Keys |-> MetaNew]
    /\ pending = [k \in Keys |-> << >>]
    /\ starved = {}
    /\ relieved = {}
    /\ munmaps = 0
    /\ mutex = Unlocked
    /\ w_call = NoCall
    /\ r_call = [k \in Keys |-> 0]

\* with_capacity returned a buffer of Capacity items: its construction succeeded
\* at the first attempt, for items of PageSize bytes.
InitMapped ==
    /\ min_items = Capacity
    /\ item_size = PageSize
    /\ alignment = 1
    /\ overflow_checks = TRUE
    /\ attempt = 1
    /\ c_pc = "done"
    /\ size = Capacity * PageSize
    /\ fd = "closed"
    /\ linked = FALSE
    /\ file_len = Capacity * PageSize
    /\ buff = PageSize
    /\ first_half = 0
    /\ second_half = 0
    /\ leaked = 0
    /\ ret = "Ok"
    /\ trace = StepOrder

\* No notifier is driven on its own.
NotifierIdle ==
    /\ n_kind = "blocking"
    /\ n_armed = FALSE
    /\ n_chan = 0
    /\ n_arms = 0
    /\ n_sent = 0

Init ==
    /\ InitCircular
    /\ InitMapped
    /\ NotifierIdle
    /\ PipelineIdle

\* Notifier::notify of every attached reader's reader_notifier (BlockingNotifier:
\* if armed, send on the reader's channel and disarm).
NotifyReaders(rs) ==
    [k \in Keys |-> IF rs[k].vacant THEN rs[k]
                    ELSE [rs[k] EXCEPT !.reader_notifier = FALSE]]
ReaderChanLostSignal == r_chan
ReaderChanAfterNotify ==
    [k \in Keys |-> IF ~readers[k].vacant /\ readers[k].reader_notifier
                    THEN r_chan[k] + 1 ELSE r_chan[k]]

\* Notifier::notify of the writer_notifier of reader state rs: the signals then
\* queued in the writer's channel.  A send to a dropped receiver is discarded.
WriterChanLostSignal(rs) == w_chan
WriterChanSignalsUnarmed(rs) == IF w_pc # "dropped" THEN w_chan + 1 ELSE w_chan
WriterChanAfterNotify(rs) ==
    IF rs.writer_notifier /\ w_pc # "dropped" THEN w_chan + 1 ELSE w_chan

(***************************************************************************)
(* Writer                                                                  *)
(***************************************************************************)

\* Writer::add_reader through sync::Writer::add_reader.
AddReader ==
    /\ w_pc = "idle"
    /\ Cardinality(Occupied) < MaxReaders
    /\ LET id == SlabInsertKey IN
       /\ readers' = [readers EXCEPT ![id] = ReaderState(writer_ab, writer_offset)]
       /\ slab_free' = IF slab_free # << >> THEN Tail(slab_free) ELSE slab_free
       /\ r_last_space' = [r_last_space EXCEPT ![id] = 0]
       /\ r_pc' = [r_pc EXCEPT ![id] = "idle"]
       /\ r_chan' = [r_chan EXCEPT ![id] = 0]
       /\ r_result' = [r_result EXCEPT ![id] = "-"]
       /\ meta' = [meta EXCEPT ![id] = MetaNew]
       /\ pending' = [pending EXCEPT ![id] = << >>]
    /\ UNCHANGED << writer_offset, writer_ab, writer_done, w_last_space, w_pc,
                    w_chan, buffer, starved, relieved,
                    mapping, munmaps, notifier, pipeline, locking >>

\* A window request that arms the writer_notifier of every full reader.
WriterWindowRequestArmsEveryFull(arm) ==
    LET res == SpaceLoop(0, Capacity)
        allfull == /\ Occupied # {}
                   /\ \A k \in Occupied :
                        WriterSpaceFor(writer_offset, writer_ab,
                                       readers[k].offset, readers[k].ab) = 0
    IN /\ readers' = IF arm /\ res.full # -1
                     THEN [k \in Keys |->
                             IF /\ ~readers[k].vacant
                                /\ WriterSpaceFor(writer_offset, writer_ab,
                                                  readers[k].offset, readers[k].ab) = 0
                             THEN [readers[k] EXCEPT !.writer_notifier = TRUE]
                             ELSE readers[k]]
                     ELSE readers
       /\ w_last_space' = res.space
       /\ starved' = IF allfull THEN Occupied ELSE {}
       /\ relieved' = {}

\* Writer::slice(arm): space_and_offset(arm), then last_space = space.
WriterWindowRequest(arm) ==
    LET res == SpaceLoop(0, Capacity)
        allfull == /\ Occupied # {}
                   /\ \A k \in Occupied :
                        WriterSpaceFor(writer_offset, writer_ab,
                                       readers[k].offset, readers[k].ab) = 0
    IN /\ readers' = IF arm /\ res.full # -1
                     THEN [readers EXCEPT ![res.full].writer_notifier = TRUE]
                     ELSE readers
       /\ w_last_space' = res.space
       /\ starved' = IF allfull THEN Occupied ELSE {}
       /\ relieved' = {}

\* sync::Writer::try_slice
WriterTrySlice ==
    /\ w_pc = "idle"
    /\ WriterWindowRequest(FALSE)
    /\ UNCHANGED << writer_offset, writer_ab, writer_done, slab_free, w_pc, w_chan,
                    r_last_space, r_pc, r_chan, r_result, buffer, meta, pending,
                    mapping, munmaps, notifier, pipeline, locking >>

\* sync::Writer::slice, one turn of its loop: the window request with arm set;
\* an empty window sends the thread to recv, any other is returned.
WriterSliceTrustsSignal ==
    /\ w_pc \in {"idle", "retry"}
    /\ WriterWindowRequest(TRUE)
    /\ w_pc' = IF w_last_space' = 0 /\ w_pc = "idle" THEN "wait" ELSE "idle"
    /\ UNCHANGED << writer_offset, writer_ab, writer_done, slab_free, w_chan,
                    r_last_space, r_pc, r_chan, r_result, buffer, meta, pending,
                    mapping, munmaps, notifier, pipeline, locking >>
WriterSlice ==
    /\ w_pc \in {"idle", "retry"}
    /\ WriterWindowRequest(TRUE)
    /\ w_pc' = IF w_last_space' = 0 THEN "wait" ELSE "idle"
    /\ UNCHANGED << writer_offset, writer_ab, writer_done, slab_free, w_chan,
                    r_last_space, r_pc, r_chan, r_result, buffer, meta, pending,
                    mapping, munmaps, notifier, pipeline, locking >>

\* sync::Writer::slice, self.chan.recv() returning: one signal is taken and the
\* loop goes round.
WriterRecv ==
    /\ w_pc = "wait"
    /\ w_chan > 0
    /\ w_chan' = w_chan - 1
    /\ w_pc' = "retry"
    /\ UNCHANGED << engine, w_last_space, r_last_space, r_pc, r_chan, r_result,
                    buffer, pending, starved, relieved,
                    mapping, munmaps, notifier, pipeline, locking >>

\* The writer stores item v at index i of the window it holds.
WriterWrite(i, v) ==
    /\ w_pc = "idle"
    /\ i < w_last_space
    /\ buffer' = [buffer EXCEPT ![(writer_offset + i) % Capacity] = v]
    /\ UNCHANGED << engine, w_last_space, w_pc, w_chan, r_last_space, r_pc, r_chan,
                    r_result, pending, starved, relieved,
                    mapping, munmaps, notifier, pipeline, locking >>

WriterProduceZeroKeepsTags ==
    /\ w_pc = "idle"
    /\ Occupied # {}
    /\ \A k \in Occupied : meta[k] = << >>
    /\ meta' = [k \in Keys |-> IF readers[k].vacant THEN meta[k]
                                ELSE MetaAdd(meta[k], ReaderSpace(k), << 0 >>)]
    /\ UNCHANGED << writer_offset, writer_ab, writer_done, readers, slab_free,
                    w_last_space, w_pc, w_chan, r_last_space, r_pc, r_chan,
                    r_result, buffer, pending, starved, relieved,
                    mapping, munmaps, notifier, pipeline, locking >>

\* Writer::produce(0): the early return.
WriterProduceZero ==
    /\ w_pc = "idle"
    /\ UNCHANGED vars

\* Writer::produce(n) failing its debug_assert! or its assert!.
WriterProducePanicsDebugOnly(n) == DebugAssertions /\ WriterSpace < n
WriterProducePanics(n) ==
    \/ DebugAssertions /\ WriterSpace < n
    \/ n > w_last_space

WriterProducePanic(n) ==
    /\ w_pc = "idle"
    /\ n > 0
    /\ WriterProducePanics(n)
    /\ w_pc' = "panicked"
    /\ UNCHANGED << engine, w_last_space, w_chan, r_last_space, r_pc, r_chan,
                    r_result, buffer, pending, starved, relieved,
                    mapping, munmaps, notifier, pipeline, locking >>

\* Writer::produce(n, tags), 0 < n <= last_space: every reader's meta gets the
\* tags shifted by the reader's span before the advance.
Produce(n, tags) ==
    /\ w_pc = "idle"
    /\ n > 0
    /\ ~WriterProducePanics(n)
    /\ w_last_space' = w_last_space - n
    /\ meta' = [k \in Keys |-> IF readers[k].vacant THEN meta[k]
                                ELSE MetaAdd(meta[k], ReaderSpace(k), tags)]
    /\ readers' = NotifyReaders(readers)
    /\ r_chan' = ReaderChanAfterNotify
    /\ writer_ab' = ProduceAb(writer_ab, writer_offset, n)
    /\ writer_offset' = ProduceOffset(writer_offset, n)
    /\ pending' = [k \in Keys |-> IF readers[k].vacant THEN pending[k]
                                  ELSE pending[k] \o Window(buffer, writer_offset, n)]
    /\ UNCHANGED << writer_done, slab_free, w_pc, w_chan, r_last_space, r_pc,
                    r_result, buffer, starved, relieved,
                    mapping, munmaps, notifier, pipeline, locking >>

WriterProduceKeepsLastSpace(n) ==
    /\ w_pc = "idle"
    /\ n > 0
    /\ ~WriterProducePanics(n)
    /\ w_last_space' = w_last_space
    /\ meta' = meta
    /\ readers' = NotifyReaders(readers)
    /\ r_chan' = ReaderChanAfterNotify
    /\ writer_ab' = ProduceAb(writer_ab, writer_offset, n)
    /\ writer_offset' = ProduceOffset(writer_offset, n)
    /\ pending' = [k \in Keys |-> IF readers[k].vacant THEN pending[k]
                                  ELSE pending[k] \o Window(buffer, writer_offset, n)]
    /\ UNCHANGED << writer_done, slab_free, w_pc, w_chan, r_last_space, r_pc,
                    r_result, buffer, starved, relieved,
                    mapping, munmaps, notifier, pipeline, locking >>

\* The facades' produce(n): the engine's produce with no tags.
WriterProduce(n) == Produce(n, << >>)

\* Arc::strong_count of the Arc<DoubleMappedBuffer> that the writer and every
\* reader hold a clone of.
BufferHandles == (IF w_pc = "dropped" THEN 0 ELSE 1) + Cardinality(Occupied)

\* Dropping one clone drops the DoubleMappedBufferImpl (munmap of both halves)
\* when it was the last one.
ArcDropReleasesAlways(strong) == TRUE
ArcDropReleases(strong) == strong = 1
MunmapsAfterDrop == IF ArcDropReleases(BufferHandles) THEN munmaps + 1 ELSE munmaps

\* Drop for Writer, and the drop of sync::Writer's receiver with it.
WriterDropNoNotify ==
    /\ w_pc \in {"idle", "panicked"}
    /\ writer_done' = TRUE
    /\ w_pc' = "dropped"
    /\ munmaps' = MunmapsAfterDrop
    /\ w_last_space' = 0
    /\ w_chan' = 0
    /\ starved' = {}
    /\ relieved' = {}
    /\ UNCHANGED << writer_offset, writer_ab, readers, slab_free, r_last_space, r_pc,
                    r_chan, r_result, buffer, meta, pending,
                    mapping, notifier, pipeline, locking >>
WriterDrop ==
    /\ w_pc \in {"idle", "panicked"}
    /\ writer_done' = TRUE
    /\ readers' = NotifyReaders(readers)
    /\ r_chan' = ReaderChanAfterNotify
    /\ w_pc' = "dropped"
    /\ munmaps' = MunmapsAfterDrop
    /\ w_last_space' = 0
    /\ w_chan' = 0
    /\ starved' = {}
    /\ relieved' = {}
    /\ UNCHANGED << writer_offset, writer_ab, slab_free, r_last_space, r_pc,
                    r_result, buffer, meta, pending,
                    mapping, notifier, pipeline, locking >>

(***************************************************************************)
(* Reader                                                                  *)
(***************************************************************************)

\* Reader::slice(arm): space_and_offset_and_meta(arm), last_space = space, and
\* None if the space is 0 and the writer is done.
ReaderWindowRequestNoneWhenDone(k, arm) ==
    LET space == ReaderSpace(k) IN
    /\ readers' = IF space = 0 /\ arm
                  THEN [readers EXCEPT ![k].reader_notifier = TRUE]
                  ELSE readers
    /\ r_last_space' = [r_last_space EXCEPT ![k] = space]
    /\ r_result' = [r_result EXCEPT ![k] = IF writer_done THEN "None" ELSE "Some"]
ReaderWindowRequestNoneWhenEmpty(k, arm) ==
    LET space == ReaderSpace(k) IN
    /\ readers' = IF space = 0 /\ arm
                  THEN [readers EXCEPT ![k].reader_notifier = TRUE]
                  ELSE readers
    /\ r_last_space' = [r_last_space EXCEPT ![k] = space]
    /\ r_result' = [r_result EXCEPT ![k] = IF space = 0 THEN "None" ELSE "Some"]
ReaderWindowRequest(k, arm) ==
    LET space == ReaderSpace(k) IN
    /\ readers' = IF space = 0 /\ arm
                  THEN [readers EXCEPT ![k].reader_notifier = TRUE]
                  ELSE readers
    /\ r_last_space' = [r_last_space EXCEPT ![k] = space]
    /\ r_result' = [r_result EXCEPT ![k] =
                       IF space = 0 /\ writer_done THEN "None" ELSE "Some"]

\* sync::Reader::try_slice
ReaderTrySlice(k) ==
    /\ r_pc[k] = "idle"
    /\ ReaderWindowRequest(k, FALSE)
    /\ UNCHANGED << writer_offset, writer_ab, writer_done, slab_free, w_last_space,
                    w_pc, w_chan, r_pc, r_chan, buffer, meta, pending, starved,
                    relieved,
                    mapping, munmaps, notifier, pipeline, locking >>

\* sync::Reader::slice, one turn of its loop: Some([]) sends the thread to
\* recv, Some(s) and None are returned.
ReaderSlice(k) ==
    /\ r_pc[k] \in {"idle", "retry"}
    /\ ReaderWindowRequest(k, TRUE)
    /\ r_pc' = [r_pc EXCEPT ![k] =
                   IF r_result'[k] = "Some" /\ r_last_space'[k] = 0
                   THEN "wait" ELSE "idle"]
    /\ UNCHANGED << writer_offset, writer_ab, writer_done, slab_free, w_last_space,
                    w_pc, w_chan, r_chan, buffer, meta, pending, starved, relieved,
                    mapping, munmaps, notifier, pipeline, locking >>

\* sync::Reader::slice, self.chan.recv() returning.
ReaderRecv(k) ==
    /\ r_pc[k] = "wait"
    /\ r_chan[k] > 0
    /\ r_chan' = [r_chan EXCEPT ![k] = r_chan[k] - 1]
    /\ r_pc' = [r_pc EXCEPT ![k] = "retry"]
    /\ UNCHANGED << engine, w_last_space, w_pc, w_chan, r_last_space, r_result,
                    buffer, pending, starved, relieved,
                    mapping, munmaps, notifier, pipeline, locking >>

\* Reader::consume(0): the early return.
ReaderConsumeZero(k) ==
    /\ r_pc[k] = "idle"
    /\ UNCHANGED vars

\* Reader::consume(n) failing its debug_assert! or its assert!.
ReaderConsumePanicsDebugOnly(k, n) == DebugAssertions /\ ReaderSpace(k) < n
ReaderConsumePanics(k, n) ==
    \/ DebugAssertions /\ ReaderSpace(k) < n
    \/ n > r_last_space[k]

ReaderConsumePanic(k, n) ==
    /\ r_pc[k] = "idle"
    /\ n > 0
    /\ ReaderConsumePanics(k, n)
    /\ r_pc' = [r_pc EXCEPT ![k] = "panicked"]
    /\ UNCHANGED << engine, w_last_space, w_pc, w_chan, r_last_space, r_chan,
                    r_result, buffer, pending, starved, relieved,
                    mapping, munmaps, notifier, pipeline, locking >>

ReaderConsumeSharedCursor(k, n) ==
    /\ r_pc[k] = "idle"
    /\ n > 0
    /\ ~ReaderConsumePanics(k, n)
    /\ r_last_space' = [r_last_space EXCEPT ![k] = r_last_space[k] - n]
    /\ readers' = [j \in Keys |->
                     IF readers[j].vacant \/ ReaderSpace(j) < n THEN readers[j]
                     ELSE [readers[j] EXCEPT
                             !.ab = ConsumeAb(readers[j].ab, readers[j].offset, n),
                             !.offset = ConsumeOffset(readers[j].offset, n),
                             !.writer_notifier = FALSE]]
    /\ meta' = [meta EXCEPT ![k] = MetaConsume(meta[k], n)]
    /\ w_chan' = WriterChanAfterNotify(readers[k])
    /\ pending' = [j \in Keys |->
                     IF readers[j].vacant \/ ReaderSpace(j) < n THEN pending[j]
                     ELSE SubSeq(pending[j], n + 1, Len(pending[j]))]
    /\ starved' = starved \ {k}
    /\ relieved' = IF k \in starved THEN relieved \cup {k} ELSE relieved
    /\ UNCHANGED << writer_offset, writer_ab, writer_done, slab_free, w_last_space,
                    w_pc, r_pc, r_chan, r_result, buffer,
                    mapping, munmaps, notifier, pipeline, locking >>

\* Reader::consume(n), 0 < n <= last_space.
ReaderConsume(k, n) ==
    /\ r_pc[k] = "idle"
    /\ n > 0
    /\ ~ReaderConsumePanics(k, n)
    /\ r_last_space' = [r_last_space EXCEPT ![k] = r_last_space[k] - n]
    /\ readers' = [readers EXCEPT
                     ![k].ab = ConsumeAb(readers[k].ab, readers[k].offset, n),
                     ![k].offset = ConsumeOffset(readers[k].offset, n),
                     ![k].writer_notifier = FALSE]
    /\ meta' = [meta EXCEPT ![k] = MetaConsume(meta[k], n)]
    /\ w_chan' = WriterChanAfterNotify(readers[k])
    /\ pending' = [pending EXCEPT ![k] = SubSeq(pending[k], n + 1, Len(pending[k]))]
    /\ starved' = starved \ {k}
    /\ relieved' = IF k \in starved THEN relieved \cup {k} ELSE relieved
    /\ UNCHANGED << writer_offset, writer_ab, writer_done, slab_free, w_last_space,
                    w_pc, r_pc, r_chan, r_result, buffer,
                    mapping, munmaps, notifier, pipeline, locking >>

\* Drop for Reader, and the drop of sync::Reader's receiver with it.
ReaderDropNoNotify(k) ==
    /\ r_pc[k] \in {"idle", "panicked"}
    /\ readers' = [readers EXCEPT ![k] = Vacant]
    /\ slab_free' = << k >> \o slab_free
    /\ munmaps' = MunmapsAfterDrop
    /\ r_last_space' = [r_last_space EXCEPT ![k] = 0]
    /\ r_pc' = [r_pc EXCEPT ![k] = "absent"]
    /\ r_chan' = [r_chan EXCEPT ![k] = 0]
    /\ r_result' = [r_result EXCEPT ![k] = "-"]
    /\ meta' = [meta EXCEPT ![k] = MetaNew]
    /\ pending' = [pending EXCEPT ![k] = << >>]
    /\ starved' = starved \ {k}
    /\ relieved' = relieved \ {k}
    /\ UNCHANGED << writer_offset, writer_ab, writer_done, w_last_space, w_pc,
                    w_chan, buffer,
                    mapping, notifier, pipeline, locking >>
ReaderDrop(k) ==
    /\ r_pc[k] \in {"idle", "panicked"}
    /\ readers' = [readers EXCEPT ![k] = Vacant]
    /\ slab_free' = << k >> \o slab_free
    /\ munmaps' = MunmapsAfterDrop
    /\ w_chan' = WriterChanAfterNotify(readers[k])
    /\ r_last_space' = [r_last_space EXCEPT ![k] = 0]
    /\ r_pc' = [r_pc EXCEPT ![k] = "absent"]
    /\ r_chan' = [r_chan EXCEPT ![k] = 0]
    /\ r_result' = [r_result EXCEPT ![k] = "-"]
    /\ meta' = [meta EXCEPT ![k] = MetaNew]
    /\ pending' = [pending EXCEPT ![k] = << >>]
    /\ starved' = starved \ {k}
    /\ relieved' = relieved \ {k}
    /\ UNCHANGED << writer_offset, writer_ab, writer_done, w_last_space, w_pc,
                    buffer,
                    mapping, notifier, pipeline, locking >>

(***************************************************************************)
(* Construction of the double mapped buffer (POSIX)                        *)
(***************************************************************************)

\* usize arithmetic as the build leaves it when overflow checks are off.
WrappingMul(a, b) == (a * b) % Word
WrappingAdd(a, b) == (a + b) % Word

\* new_try's loop condition: the size is too small or splits an item.
SizeLoopContinuesIgnoringItemSize(sz, bytes, isz) == sz < bytes
SizeLoopContinues(sz, bytes, isz) == sz < bytes \/ sz % isz # 0

\* One evaluation of the while condition of new_try and, if it holds, of the
\* loop body.  Checked arithmetic panics where wrapping arithmetic wraps.
SizeLoop ==
    /\ c_pc = "size"
    /\ IF overflow_checks /\ min_items * item_size >= Word
       THEN c_pc' = "panicked" /\ size' = size
       ELSE IF SizeLoopContinues(size, WrappingMul(min_items, item_size), item_size)
            THEN IF overflow_checks /\ size + PageSize >= Word
                 THEN c_pc' = "panicked" /\ size' = size
                 ELSE c_pc' = c_pc /\ size' = WrappingAdd(size, PageSize)
            ELSE c_pc' = "mkstemp" /\ size' = size
    /\ UNCHANGED << min_items, item_size, alignment, overflow_checks, attempt, fd,
                    linked, file_len, buff, first_half, second_half, leaked, ret,
                    trace >>
    /\ UNCHANGED << engine, w_last_space, w_pc, w_chan, r_last_space, r_pc, r_chan,
                    r_result, buffer, pending, starved, relieved, munmaps,
                    notifier, pipeline, locking >>

\* new without its loop: the first error is returned.
AttemptFailsNoRetry(err, stillMapped) ==
    /\ ret' = err
    /\ leaked' = leaked + stillMapped
    /\ buff' = -1
    /\ first_half' = -1
    /\ second_half' = -1
    /\ attempt' = attempt
    /\ c_pc' = "done"
    /\ size' = size

\* new_try returns Err(err) with stillMapped ranges of size bytes left mapped;
\* inside the loop of new the next new_try starts, after it new returns.
AttemptFails(err, stillMapped) ==
    /\ ret' = err
    /\ leaked' = leaked + stillMapped
    /\ buff' = -1
    /\ first_half' = -1
    /\ second_half' = -1
    /\ IF attempt <= Retries
       THEN attempt' = attempt + 1 /\ c_pc' = "size" /\ size' = PageSize
       ELSE attempt' = attempt /\ c_pc' = "done" /\ size' = size

\* What no step of new_try changes.
ConstructionFrame ==
    /\ UNCHANGED << min_items, item_size, alignment, overflow_checks >>
    /\ UNCHANGED << engine, w_last_space, w_pc, w_chan, r_last_space, r_pc, r_chan,
                    r_result, buffer, pending, starved, relieved, munmaps,
                    notifier, pipeline, locking >>

\* mkstemp.
Mkstemp(ok) ==
    /\ c_pc = "mkstemp"
    /\ trace' = << "mkstemp" >>
    /\ IF ok
       THEN /\ fd' = "open"
            /\ linked' = TRUE
            /\ file_len' = 0
            /\ c_pc' = "unlink"
            /\ UNCHANGED << attempt, size, buff, first_half, second_half, leaked, ret >>
       ELSE /\ AttemptFails("Create", 0)
            /\ UNCHANGED << fd, linked, file_len >>
    /\ ConstructionFrame

\* unlink of the temporary file's name.
Unlink(ok) ==
    /\ c_pc = "unlink"
    /\ trace' = Append(trace, "unlink")
    /\ IF ok
       THEN /\ linked' = FALSE
            /\ c_pc' = "truncate_double"
            /\ UNCHANGED << attempt, size, fd, buff, first_half, second_half, leaked,
                            ret >>
       ELSE /\ fd' = "closed"
            /\ AttemptFails("Unlink", 0)
            /\ UNCHANGED linked
    /\ UNCHANGED file_len
    /\ ConstructionFrame

\* ftruncate(fd, 2 * size).
TruncateDouble(ok) ==
    /\ c_pc = "truncate_double"
    /\ trace' = Append(trace, "truncate_double")
    /\ IF ok
       THEN /\ file_len' = 2 * size
            /\ c_pc' = "placeholder"
            /\ UNCHANGED << attempt, size, fd, buff, first_half, second_half, leaked,
                            ret >>
       ELSE /\ fd' = "closed"
            /\ AttemptFails("Truncate", 0)
            /\ UNCHANGED file_len
    /\ UNCHANGED linked
    /\ ConstructionFrame

\* Addresses mmap may choose for the placeholder: multiples of the page size.
Bases == {PageSize, 2 * PageSize}

\* mmap of 2 * size bytes of the file, from file offset 0, anywhere.
Placeholder(ok, base) ==
    /\ c_pc = "placeholder"
    /\ trace' = Append(trace, "placeholder")
    /\ IF ok
       THEN /\ buff' = base
            /\ first_half' = 0
            /\ second_half' = size
            /\ c_pc' = "alignment"
            /\ UNCHANGED << attempt, size, fd, leaked, ret >>
       ELSE /\ fd' = "closed"
            /\ AttemptFails("Placeholder", 0)
    /\ UNCHANGED << linked, file_len >>
    /\ ConstructionFrame

\* The test of the base address against the alignment of the item type; when it
\* fails the descriptor is closed and the placeholder stays mapped.
AlignmentSkipped(base, align) == TRUE
Aligned(base, align) == base % align = 0
Alignment ==
    /\ c_pc = "alignment"
    /\ trace' = Append(trace, "alignment")
    /\ IF Aligned(buff, alignment)
       THEN /\ c_pc' = "unmap_second"
            /\ UNCHANGED << attempt, size, fd, buff, first_half, second_half, leaked,
                            ret >>
       ELSE /\ fd' = "closed"
            /\ AttemptFails("Alignment", 2)
    /\ UNCHANGED << linked, file_len >>
    /\ ConstructionFrame

\* munmap of the second half; when it fails the first half is unmapped and the
\* descriptor closed.
UnmapSecond(ok) ==
    /\ c_pc = "unmap_second"
    /\ trace' = Append(trace, "unmap_second")
    /\ IF ok
       THEN /\ second_half' = -1
            /\ c_pc' = "map_second"
            /\ UNCHANGED << attempt, size, fd, buff, first_half, leaked, ret >>
       ELSE /\ fd' = "closed"
            /\ AttemptFails("UnmapSecond", 1)
    /\ UNCHANGED << linked, file_len >>
    /\ ConstructionFrame

\* The file offset the second mmap maps at buff + size.
SecondMappingPastFirst == size
SecondMappingFileOffset == 0

\* mmap of size bytes of the file at buff + size.  Without MAP_FIXED the kernel
\* may map it elsewhere; the code then unmaps the first half only.
MapSecond(outcome) ==
    /\ c_pc = "map_second"
    /\ trace' = Append(trace, "map_second")
    /\ IF outcome = "at"
       THEN /\ second_half' = SecondMappingFileOffset
            /\ c_pc' = "truncate_single"
            /\ UNCHANGED << attempt, size, fd, buff, first_half, leaked, ret >>
       ELSE /\ fd' = "closed"
            /\ AttemptFails("MapSecond", IF outcome = "elsewhere" THEN 1 ELSE 0)
    /\ UNCHANGED << linked, file_len >>
    /\ ConstructionFrame

\* ftruncate(fd, size); when it fails both halves are unmapped.
TruncateSingle(ok) ==
    /\ c_pc = "truncate_single"
    /\ trace' = Append(trace, "truncate_single")
    /\ IF ok
       THEN /\ file_len' = size
            /\ c_pc' = "close"
            /\ UNCHANGED << attempt, size, fd, buff, first_half, second_half, leaked,
                            ret >>
       ELSE /\ fd' = "closed"
            /\ AttemptFails("Truncate", 0)
            /\ UNCHANGED file_len
    /\ UNCHANGED linked
    /\ ConstructionFrame

\* close(fd); when it fails Err(Close) is returned with both halves mapped, and
\* whether the descriptor is still open is left to the system.
Close(ok, fdAfter) ==
    /\ c_pc = "close"
    /\ trace' = Append(trace, "close")
    /\ IF ok
       THEN /\ fd' = "closed"
            /\ ret' = "Ok"
            /\ c_pc' = "done"
            /\ UNCHANGED << attempt, size, buff, first_half, second_half, leaked >>
       ELSE /\ fd' = fdAfter
            /\ AttemptFails("Close", 2)
    /\ UNCHANGED << linked, file_len >>
    /\ ConstructionFrame

(***************************************************************************)
(* A notifier on its own                                                   *)
(***************************************************************************)

\* Does the channel take one more message: the channel of std::sync::mpsc is
\* unbounded, the one of futures::channel::mpsc holds its buffer and one
\* message per sender.
ChannelTakes(kind, queued) == kind = "blocking" \/ queued < AsyncChannelBuffer + 1

\* Notifier::arm of BlockingNotifier and AsyncNotifier.
NotifierArm ==
    /\ n_arms < MaxArmCalls
    /\ n_armed' = TRUE
    /\ n_arms' = n_arms + 1
    /\ UNCHANGED << n_kind, n_chan, n_sent >>
    /\ UNCHANGED << circular, mapping, pipeline >>

\* Notifier::notify of BlockingNotifier (chan.send) and AsyncNotifier
\* (chan.try_send); the result of the send is dropped.
NotifierNotifyStaysArmed ==
    /\ IF n_armed
       THEN /\ n_sent' = n_sent + 1
            /\ n_chan' = IF ChannelTakes(n_kind, n_chan) THEN n_chan + 1 ELSE n_chan
            /\ n_armed' = n_armed
       ELSE UNCHANGED << n_armed, n_chan, n_sent >>
    /\ n_sent < MaxArmCalls
    /\ UNCHANGED << n_kind, n_arms >>
    /\ UNCHANGED << circular, mapping, pipeline >>
NotifierNotify ==
    /\ IF n_armed
       THEN /\ n_sent' = n_sent + 1
            /\ n_chan' = IF ChannelTakes(n_kind, n_chan) THEN n_chan + 1 ELSE n_chan
            /\ n_armed' = FALSE
       ELSE UNCHANGED << n_armed, n_chan, n_sent >>
    /\ UNCHANGED << n_kind, n_arms >>
    /\ UNCHANGED << circular, mapping, pipeline >>

\* The waiting party takes one signal from the channel.
NotifierRecv ==
    /\ n_chan > 0
    /\ n_chan' = n_chan - 1
    /\ UNCHANGED << n_kind, n_armed, n_arms, n_sent >>
    /\ UNCHANGED << circular, mapping, pipeline >>

(***************************************************************************)
(* The pipeline of examples/sdr.rs                                         *)
(***************************************************************************)

\* Writer::space_and_offset(_).0 for the one reader of a pipeline buffer.
PipeWriterSpace(st) ==
    IF st.reader.vacant THEN Capacity
    ELSE WriterSpaceFor(st.writer_offset, st.writer_ab, st.reader.offset, st.reader.ab)

\* Reader::space_and_offset_and_meta(_).0
PipeReaderSpace(st) ==
    ReaderSpaceFor(st.writer_offset, st.writer_ab, st.reader.offset, st.reader.ab)

\* Writer::slice(true)
PipeWriterSlice(st) ==
    LET space == PipeWriterSpace(st) IN
    [st EXCEPT !.w_last = space,
               !.reader.writer_notifier = (space = 0) \/ @]

\* Reader::slice(true): the state it leaves, and whether it returns None.
PipeReaderSlice(st) ==
    LET space == PipeReaderSpace(st) IN
    [st EXCEPT !.r_last = space,
               !.reader.reader_notifier = (space = 0) \/ @]
PipeReaderNone(st) == PipeReaderSpace(st) = 0 /\ st.writer_done

\* The items of the window a reader holds, and the cells after the writer
\* stored items at the start of the window it holds.
PipeWindow(st, n) == Window(st.cells, st.reader.offset, n)
PipeStore(st, items) ==
    [st EXCEPT !.cells =
        [c \in Cells |->
            IF \E i \in 1..Len(items) : (st.writer_offset + i - 1) % Capacity = c
            THEN items[CHOOSE i \in 1..Len(items) :
                           (st.writer_offset + i - 1) % Capacity = c]
            ELSE st.cells[c]]]

\* Notifier::notify of the reader_notifier and of the writer_notifier of a
\* pipeline buffer's reader.
PipeNotifyReaderLost(st) == st
PipeNotifyReader(st) ==
    IF ~st.reader.vacant /\ st.reader.reader_notifier
    THEN [st EXCEPT !.reader.reader_notifier = FALSE, !.r_chan = @ + 1]
    ELSE st
PipeNotifyWriter(st) ==
    IF ~st.reader.vacant /\ st.reader.writer_notifier
    THEN [st EXCEPT !.reader.writer_notifier = FALSE,
                    !.w_chan = IF st.writer_done THEN @ ELSE @ + 1]
    ELSE st

\* Writer::produce(n), n > 0
PipeProduce(st, n) ==
    LET notified == PipeNotifyReader([st EXCEPT !.w_last = @ - n]) IN
    [notified EXCEPT !.writer_ab = ProduceAb(st.writer_ab, st.writer_offset, n),
                     !.writer_offset = ProduceOffset(st.writer_offset, n)]

\* Reader::consume(n), n > 0
PipeConsume(st, n) ==
    LET advanced == [st EXCEPT !.r_last = @ - n,
                               !.reader.ab = ConsumeAb(st.reader.ab, st.reader.offset, n),
                               !.reader.offset = ConsumeOffset(st.reader.offset, n)]
    IN PipeNotifyWriter(advanced)

\* Drop for Writer and Drop for Reader.
PipeWriterDrop(st) == PipeNotifyReader([st EXCEPT !.writer_done = TRUE])
PipeReaderDrop(st) == [PipeNotifyWriter(st) EXCEPT !.reader = Vacant]

\* What no step of the pipeline changes.
PipeFrame == UNCHANGED << circular, mapping, notifier >>

\* w.slice() of the source (t = 0) and of a copy stage, one turn of the loop
\* of sync::Writer::slice.
StageWriterSlice(t) ==
    /\ t \in Buffers
    /\ t_pc[t].at = "wslice"
    /\ LET st == PipeWriterSlice(pipe[t]) IN
       /\ pipe' = [pipe EXCEPT ![t] = st]
       /\ t_pc' = [t_pc EXCEPT ![t] =
                      IF st.w_last = 0 THEN At("wwait", 0)
                      ELSE IF t = 0 THEN At("fill", 0) ELSE At("copy", 0)]
    /\ UNCHANGED << src_i, sink_items >>
    /\ PipeFrame

\* self.chan.recv() inside sync::Writer::slice.
StageWriterRecv(t) ==
    /\ t \in Buffers
    /\ t_pc[t].at = "wwait"
    /\ pipe[t].w_chan > 0
    /\ pipe' = [pipe EXCEPT ![t].w_chan = @ - 1]
    /\ t_pc' = [t_pc EXCEPT ![t] = At("wslice", 0)]
    /\ UNCHANGED << src_i, sink_items >>
    /\ PipeFrame

\* Source::run: f(s) of VectorSource, then w.produce(n), or break and with it
\* the drop of w.
SourceFill ==
    /\ t_pc[0].at = "fill"
    /\ IF src_i < InputLen
       THEN LET len == Min(pipe[0].w_last, InputLen - src_i)
                items == SubSeq(Input, src_i + 1, src_i + len)
            IN /\ pipe' = [pipe EXCEPT ![0] = PipeProduce(PipeStore(pipe[0], items), len)]
               /\ src_i' = src_i + len
               /\ t_pc' = [t_pc EXCEPT ![0] = At("wslice", 0)]
       ELSE /\ pipe' = [pipe EXCEPT ![0] = PipeWriterDrop(pipe[0])]
            /\ src_i' = src_i
            /\ t_pc' = [t_pc EXCEPT ![0] = At("done", 0)]
    /\ UNCHANGED sink_items
    /\ PipeFrame

\* reader.slice() of a copy stage and of the sink (t = SinkThread), one turn of
\* the loop of sync::Reader::slice.
StageReaderSlice(t) ==
    /\ t \in Threads \ {0}
    /\ t_pc[t].at = "rslice"
    /\ LET st == PipeReaderSlice(pipe[t - 1]) IN
       /\ pipe' = [pipe EXCEPT ![t - 1] = st]
       /\ t_pc' = [t_pc EXCEPT ![t] =
                      IF PipeReaderNone(pipe[t - 1]) THEN At("exit", 0)
                      ELSE IF st.r_last = 0 THEN At("rwait", 0)
                      ELSE IF t = SinkThread THEN At("extend", 0) ELSE At("wslice", 0)]
    /\ UNCHANGED << src_i, sink_items >>
    /\ PipeFrame

\* self.chan.recv() inside sync::Reader::slice.
StageReaderRecv(t) ==
    /\ t \in Threads \ {0}
    /\ t_pc[t].at = "rwait"
    /\ pipe[t - 1].r_chan > 0
    /\ pipe' = [pipe EXCEPT ![t - 1].r_chan = @ - 1]
    /\ t_pc' = [t_pc EXCEPT ![t] = At("rslice", 0)]
    /\ UNCHANGED << src_i, sink_items >>
    /\ PipeFrame

\* Middle::run: n = min(input.len(), output.len()), the copy f, and
\* reader.consume(n).
MiddleCopy(t) ==
    /\ t \in 1..NCopy
    /\ t_pc[t].at = "copy"
    /\ LET n == Min(pipe[t - 1].r_last, pipe[t].w_last) IN
       /\ pipe' = [pipe EXCEPT ![t] = PipeStore(pipe[t], PipeWindow(pipe[t - 1], n)),
                               ![t - 1] = PipeConsume(pipe[t - 1], n)]
       /\ t_pc' = [t_pc EXCEPT ![t] = At("produce", n)]
    /\ UNCHANGED << src_i, sink_items >>
    /\ PipeFrame

\* Middle::run: w.produce(n).
MiddleProduce(t) ==
    /\ t \in 1..NCopy
    /\ t_pc[t].at = "produce"
    /\ pipe' = [pipe EXCEPT ![t] = PipeProduce(pipe[t], t_pc[t].n)]
    /\ t_pc' = [t_pc EXCEPT ![t] = At("rslice", 0)]
    /\ UNCHANGED << src_i, sink_items >>
    /\ PipeFrame

\* Middle::run: the loop ends on None and the closure drops reader and w.
MiddleExit(t) ==
    /\ t \in 1..NCopy
    /\ t_pc[t].at = "exit"
    /\ pipe' = [pipe EXCEPT ![t - 1] = PipeReaderDrop(pipe[t - 1]),
                            ![t] = PipeWriterDrop(pipe[t])]
    /\ t_pc' = [t_pc EXCEPT ![t] = At("done", 0)]
    /\ UNCHANGED << src_i, sink_items >>
    /\ PipeFrame

\* Sink::run: items.extend_from_slice(s) and r.consume(s.len()).
SinkExtend ==
    /\ t_pc[SinkThread].at = "extend"
    /\ LET st == pipe[NCopy] IN
       /\ sink_items' = sink_items \o PipeWindow(st, st.r_last)
       /\ pipe' = [pipe EXCEPT ![NCopy] = PipeConsume(st, st.r_last)]
    /\ t_pc' = [t_pc EXCEPT ![SinkThread] = At("rslice", 0)]
    /\ UNCHANGED src_i
    /\ PipeFrame

\* Sink::run: the loop ends on None; the closure drops r and returns items.
SinkExit ==
    /\ t_pc[SinkThread].at = "exit"
    /\ pipe' = [pipe EXCEPT ![NCopy] = PipeReaderDrop(pipe[NCopy])]
    /\ t_pc' = [t_pc EXCEPT ![SinkThread] = At("done", 0)]
    /\ UNCHANGED << src_i, sink_items >>
    /\ PipeFrame

(***************************************************************************)
(* Specifications                                                          *)
(***************************************************************************)

\* The engine as the non-blocking facade drives it (src/src/nonblocking.rs:
\* every window request passes arm = false), with the writer storing items.
Next ==
    \/ AddReader
    \/ WriterTrySlice
    \/ \E i \in Cells, v \in Items : WriterWrite(i, v)
    \/ WriterProduceZero
    \/ \E n \in Amounts : WriterProduce(n)
    \/ WriterDrop
    \/ \E k \in Keys : ReaderTrySlice(k)
    \/ \E k \in Keys : ReaderConsumeZero(k)
    \/ \E k \in Keys, n \in Amounts : ReaderConsume(k, n)
    \/ \E k \in Keys : ReaderDrop(k)

Spec == Init /\ [][Next]_vars

\* The blocking facade (src/src/sync.rs): slice blocks on the party's channel.
\* The stores into the buffer are left out: no operation of the engine or of
\* the facade reads an item.
NextSync ==
    \/ AddReader
    \/ WriterTrySlice
    \/ WriterSlice
    \/ WriterRecv
    \/ WriterProduceZero
    \/ \E n \in Amounts : WriterProduce(n)
    \/ WriterDrop
    \/ \E k \in Keys : ReaderTrySlice(k)
    \/ \E k \in Keys : ReaderSlice(k)
    \/ \E k \in Keys : ReaderRecv(k)
    \/ \E k \in Keys : ReaderConsumeZero(k)
    \/ \E k \in Keys, n \in Amounts : ReaderConsume(k, n)
    \/ \E k \in Keys : ReaderDrop(k)

SpecSync == Init /\ [][NextSync]_vars

\* The turn of sync::Writer::slice's loop that follows a recv.
WriterRetry == w_pc = "retry" /\ WriterSlice

\* The turn of sync::Reader::slice's loop that follows a recv.
ReaderRetry(k) == r_pc[k] = "retry" /\ ReaderSlice(k)

\* The blocking facade with its threads scheduled: a thread inside slice()
\* whose recv has a signal to take, or that is about to ask again, runs.
\* What the callers do between calls is left to them.
SpecSyncFair ==
    /\ SpecSync
    /\ WF_vars(WriterRecv)
    /\ WF_vars(WriterRetry)
    /\ \A k \in Keys : WF_vars(ReaderRecv(k)) /\ WF_vars(ReaderRetry(k))

\* The engine driven directly (src/src/generic.rs) with a tag-carrying
\* Metadata, every window request passing arm = false.
NextGeneric ==
    \/ AddReader
    \/ WriterTrySlice
    \/ WriterProduceZero
    \/ \E n \in Amounts : \E tags \in TagLists(n) : Produce(n, tags)
    \/ WriterDrop
    \/ \E k \in Keys : ReaderTrySlice(k)
    \/ \E k \in Keys : ReaderConsumeZero(k)
    \/ \E k \in Keys, n \in Amounts : ReaderConsume(k, n)
    \/ \E k \in Keys : ReaderDrop(k)

SpecGeneric == Init /\ [][NextGeneric]_vars

\* The non-blocking facade with the calls of produce and consume that panic.
\* A panicked party does nothing more than drop its handle.
NextPanic ==
    \/ AddReader
    \/ WriterTrySlice
    \/ WriterProduceZero
    \/ \E n \in Amounts : WriterProduce(n)
    \/ \E n \in Amounts : WriterProducePanic(n)
    \/ WriterDrop
    \/ \E k \in Keys : ReaderTrySlice(k)
    \/ \E k \in Keys : ReaderConsumeZero(k)
    \/ \E k \in Keys, n \in Amounts : ReaderConsume(k, n)
    \/ \E k \in Keys, n \in Amounts : ReaderConsumePanic(k, n)
    \/ \E k \in Keys : ReaderDrop(k)

SpecPanic == Init /\ [][NextPanic]_vars

\* capacity(): size_bytes / item_size.
CapacityOf(sz, isz) == sz \div isz

\* The file offset behind byte v of the 2 * size bytes at buff, -1 if that byte
\* is not mapped.
MappedFileOffset(v) ==
    IF v < size
    THEN IF first_half = -1 THEN -1 ELSE first_half + v
    ELSE IF second_half = -1 THEN -1 ELSE second_half + (v - size)

\* slice_with_offset(offset): capacity items starting at item offset of the
\* mapping, each given by the file offset of its first byte.
SliceWithOffset(offset) ==
    [i \in 0..(CapacityOf(size, item_size) - 1) |->
        MappedFileOffset((offset + i) * item_size)]

\* new has been called and nothing has run yet.
InitAttempt ==
    /\ attempt = 1
    /\ c_pc = "size"
    /\ size = PageSize
    /\ fd = "none"
    /\ linked = FALSE
    /\ file_len = 0
    /\ buff = -1
    /\ first_half = -1
    /\ second_half = -1
    /\ leaked = 0
    /\ ret = "none"
    /\ trace = << >>

\* The computation of the size in new_try, for every min_items a usize holds,
\* in a build with and in a build without overflow checks.
InitSize ==
    /\ InitCircular
    /\ NotifierIdle
    /\ PipelineIdle
    /\ InitAttempt
    /\ min_items \in 0..(Word - 1)
    /\ item_size \in 1..MaxItemSize
    /\ alignment = 1
    /\ overflow_checks \in BOOLEAN

NextSize == SizeLoop

SpecSize == InitSize /\ [][NextSize]_vars

\* Item types tried by the construction: size and alignment.  The last one asks
\* for more than the alignment of a page.
ItemTypes == {<< i, 1 >> : i \in 1..MaxItemSize} \cup {<< 2 * PageSize, 2 * PageSize >>}

\* DoubleMappedBufferImpl::new on POSIX, every system call free to fail, for
\* parameters whose doubled size fits a usize.
InitConstruct ==
    /\ InitCircular
    /\ NotifierIdle
    /\ PipelineIdle
    /\ InitAttempt
    /\ min_items \in {0, 1}
    /\ \E t \in ItemTypes : item_size = t[1] /\ alignment = t[2]
    /\ overflow_checks \in BOOLEAN

NextConstruct ==
    \/ SizeLoop
    \/ \E ok \in BOOLEAN : Mkstemp(ok)
    \/ \E ok \in BOOLEAN : Unlink(ok)
    \/ \E ok \in BOOLEAN : TruncateDouble(ok)
    \/ \E ok \in BOOLEAN, base \in Bases : Placeholder(ok, base)
    \/ Alignment
    \/ \E ok \in BOOLEAN : UnmapSecond(ok)
    \/ \E outcome \in {"at", "elsewhere", "failed"} : MapSecond(outcome)
    \/ \E ok \in BOOLEAN : TruncateSingle(ok)
    \/ \E ok \in BOOLEAN, fdAfter \in {"open", "closed"} : Close(ok, fdAfter)

SpecConstruct == InitConstruct /\ [][NextConstruct]_vars

\* A BlockingNotifier or an AsyncNotifier under every sequence of arm, notify
\* and recv.
InitNotifier ==
    /\ InitCircular
    /\ InitMapped
    /\ PipelineIdle
    /\ n_kind \in {"blocking", "async"}
    /\ n_armed = FALSE
    /\ n_chan = 0
    /\ n_arms = 0
    /\ n_sent = 0

NextNotifier ==
    \/ NotifierArm
    \/ NotifierNotify
    \/ NotifierRecv

SpecNotifier == InitNotifier /\ [][NextNotifier]_vars

\* main of examples/sdr.rs after the barrier: every thread at the head of its
\* loop.
InitPipeline ==
    /\ InitCircular
    /\ InitMapped
    /\ NotifierIdle
    /\ pipe = [b \in Buffers |-> PipeBuffer]
    /\ t_pc = [t \in Threads |-> IF t = 0 THEN At("wslice", 0) ELSE At("rslice", 0)]
    /\ src_i = 0
    /\ sink_items = << >>

\* The steps of thread t.
ThreadStep(t) ==
    \/ StageWriterSlice(t)
    \/ StageWriterRecv(t)
    \/ t = 0 /\ SourceFill
    \/ StageReaderSlice(t)
    \/ StageReaderRecv(t)
    \/ MiddleCopy(t)
    \/ MiddleProduce(t)
    \/ MiddleExit(t)
    \/ t = SinkThread /\ SinkExtend
    \/ t = SinkThread /\ SinkExit

NextPipeline ==
    \/ \E t \in Threads : StageWriterSlice(t)
    \/ \E t \in Threads : StageWriterRecv(t)
    \/ SourceFill
    \/ \E t \in Threads : StageReaderSlice(t)
    \/ \E t \in Threads : StageReaderRecv(t)
    \/ \E t \in Threads : MiddleCopy(t)
    \/ \E t \in Threads : MiddleProduce(t)
    \/ \E t \in Threads : MiddleExit(t)
    \/ SinkExtend
    \/ SinkExit

\* The pipeline with every thread scheduled: a thread that can take its next
\* step takes it.
SpecPipeline ==
    /\ InitPipeline
    /\ [][NextPipeline]_vars
    /\ \A t \in Threads : WF_vars(ThreadStep(t))

(***************************************************************************)
(* Properties                                                              *)
(***************************************************************************)

\* The number of items produced since reader k attached, less the number it
\* consumed: produce appends to pending[k], consume removes from its front.
Backlog(k) == Len(pending[k])

SetMin(S) == CHOOSE x \in S : \A y \in S : x <= y

\* A step in which the writer asks for its window.
WriterRequest == WriterTrySlice \/ WriterSlice

\* C1: the items a reader finds in its window, in window order, are at any
\* instant exactly the items produced since it attached that it has not yet
\* consumed, in production order; consume(n) moves the window past its first n
\* items, so what the reader receives is the produced stream, nothing lost,
\* duplicated or reordered.
C1_ReaderReceivesProducedStream ==
    \A k \in Occupied :
        Window(buffer, readers[k].offset, ReaderSpace(k)) = pending[k]

\* C1 witness: a reader that has consumed holds a window that runs over the
\* end of the buffer and whose first and last items differ.
C1_Witness ==
    \E k \in Occupied :
        /\ readers[k].offset > 0
        /\ readers[k].offset + Backlog(k) > Capacity
        /\ pending[k][1] = 1
        /\ pending[k][Backlog(k)] = 0

\* C2: the window a reader's slice returns has as many items as were produced
\* since the reader attached and not consumed by it, between 0 and Capacity,
\* and the cursor pairs give that number in every state.
C2_WindowIsBacklog ==
    [][/\ \A k \in Occupied' :
            /\ ReaderSpace(k)' = Backlog(k)'
            /\ Backlog(k)' \in 0..Capacity
       /\ \A k \in Keys :
            ReaderTrySlice(k) => r_last_space'[k] = Backlog(k)']_vars

\* C2 witness: a slice has returned a full window at equal offsets away from 0.
C2_Witness ==
    \E k \in Occupied :
        /\ r_last_space[k] = Capacity
        /\ Backlog(k) = Capacity
        /\ readers[k].offset = writer_offset
        /\ writer_offset > 0

\* C3: the cells of the writer's window (what is left of its last slice) are
\* disjoint from the cells of each reader's window (what is left of its last
\* slice), and from the cells of every item the reader has not yet consumed.
C3_WindowsDisjoint ==
    \A k \in Occupied :
        /\ WindowCells(writer_offset, w_last_space)
              \cap WindowCells(readers[k].offset, r_last_space[k]) = {}
        /\ WindowCells(writer_offset, w_last_space)
              \cap WindowCells(readers[k].offset, Backlog(k)) = {}

\* C3 witness: the writer and a reader hold windows that together cover the
\* buffer, the reader's starting away from 0.
C3_Witness ==
    \E k \in Occupied :
        /\ w_last_space > 0
        /\ r_last_space[k] > 0
        /\ w_last_space + r_last_space[k] = Capacity
        /\ readers[k].offset > 0

\* The writable span by C4: Capacity less the largest backlog, Capacity when
\* no reader is attached.
GatedSpan == SetMin({Capacity} \cup {Capacity - Backlog(k) : k \in Occupied})

\* C4: the writer's window has the length of the minimum over the attached
\* readers of Capacity less the reader's backlog, Capacity with no reader.
C4_WriterGatedBySlowest ==
    [][/\ WriterSpace' = GatedSpan'
       /\ WriterRequest => w_last_space' = GatedSpan']_vars

\* C4 witness: a window request returned a span that the reader with the
\* larger of two different backlogs decides.
C4_Witness ==
    \E j, k \in Occupied :
        /\ Backlog(j) < Backlog(k)
        /\ w_last_space = Capacity - Backlog(k)
        /\ w_last_space > 0

\* The step of C5: readers r1 and r2 are the attached readers, both hold a
\* window of Capacity items, and r1 consumes n.
C5_Step(r1, r2, n) ==
    /\ r1 # r2
    /\ Occupied = {r1, r2}
    /\ Backlog(r1) = Capacity /\ r_last_space[r1] = Capacity
    /\ Backlog(r2) = Capacity /\ r_last_space[r2] = Capacity
    /\ ReaderConsume(r1, n)

\* C5 as claimed: after r1 consumed n the writable span is n and r2's window
\* is still Capacity.
C5_Original ==
    [][\A r1, r2 \in Keys, n \in 1..Capacity :
          C5_Step(r1, r2, n) => /\ WriterSpace' = n
                                /\ ReaderSpace(r2)' = Capacity]_vars

\* C5 amended: after r1 consumed n the writable span is 0, r2 (which consumed
\* nothing) gating the writer, r2's window is still Capacity and r1's is
\* Capacity - n.
C5_SpanStaysZero ==
    [][\A r1, r2 \in Keys, n \in 1..Capacity :
          C5_Step(r1, r2, n) => /\ WriterSpace' = 0
                                /\ ReaderSpace(r2)' = Capacity
                                /\ ReaderSpace(r1)' = Capacity - n]_vars

\* C5 witness: two readers, one with a full window untouched, the other having
\* consumed part of its full window.
C5_Witness ==
    \E r1, r2 \in Occupied :
        /\ Occupied = {r1, r2}
        /\ Backlog(r2) = Capacity /\ r_last_space[r2] = Capacity
        /\ Backlog(r1) < Capacity /\ r_last_space[r1] = Backlog(r1)
        /\ Backlog(r1) > 0

\* What C6 says of one state.
C6_State ==
    /\ (\A k \in Occupied : Backlog(k) = 0) => WriterSpace = Capacity
    /\ \A k \in Occupied :
         readers[k].offset = writer_offset =>
            /\ (readers[k].ab = writer_ab) <=> (Backlog(k) = 0)
            /\ (readers[k].ab # writer_ab) <=> (Backlog(k) = Capacity)

\* C6: all Capacity items are usable.  With every attached reader at backlog 0
\* the writer's window is Capacity; produce(Capacity) leaves each such reader a
\* window of Capacity and the writer a window of 0; at equal offsets the
\* generation bits are equal exactly at backlog 0 and differ exactly at
\* backlog Capacity.
C6_AllItemsUsable ==
    /\ C6_State
    /\ [][/\ C6_State'
          /\ WriterProduce(Capacity) =>
                \A k \in Occupied : /\ ReaderSpace(k)' = Capacity
                                    /\ WriterSpace' = 0]_vars

\* C6 witness: a reader holds a backlog of Capacity at equal offsets away from
\* 0, written there by a produce of Capacity items.
C6_Witness ==
    \E k \in Occupied :
        /\ readers[k].offset = writer_offset
        /\ writer_offset > 0
        /\ readers[k].ab # writer_ab
        /\ Backlog(k) = Capacity
        /\ w_last_space = 0

\* C7 as claimed: the writer's last request found every attached reader at
\* per-reader space 0; once one of these readers has consumed, the writer's
\* next request returns a non-empty window.
C7_Original ==
    [][(WriterRequest /\ relieved # {}) => w_last_space' > 0]_vars

\* C7 amended: the writer's last request found every attached reader at
\* per-reader space 0; once every one of these readers that is still attached
\* has consumed, the writer's next request returns a non-empty window.
C7_NoLostWakeup ==
    [][(WriterRequest /\ relieved # {} /\ starved = {}) => w_last_space' > 0]_vars

\* C7 witness: the writer found two readers full, both have consumed since,
\* and the writer, woken by the signal of the one it armed, is about to ask
\* again.
C7_Witness ==
    /\ Cardinality(relieved) = 2
    /\ starved = {}
    /\ w_pc = "retry"

\* Reader k holds a backlog of Capacity items.
Full(k) == k \in Occupied /\ Backlog(k) = Capacity

\* The writer's slice() has returned a non-empty window.
WriterReturned == w_pc = "idle" /\ w_last_space > 0

\* C8: a writer waiting in slice() returns a non-empty window, provided every
\* reader with a backlog of Capacity goes on to consume or is dropped; and a
\* writer waiting while the writable span is positive returns whatever the
\* readers do.
C8_WriterLiveness ==
    /\ (\A k \in Keys : []<>(~Full(k))) => ((w_pc = "wait") ~> WriterReturned)
    /\ (w_pc = "wait" /\ WriterSpace > 0) ~> WriterReturned

\* C8 witness: the writer waits with two readers full, the signal of the one
\* it armed already sent by a consume that left the other one full.
C8_Witness ==
    /\ w_pc = "wait"
    /\ w_chan = 1
    /\ \E j, k \in Occupied : /\ Full(k)
                              /\ Backlog(j) < Capacity
                              /\ j < k

\* C9: a reader waiting in slice() when items have been produced for it
\* returns Some of a non-empty window.
C9_ReaderLiveness ==
    \A k \in Keys :
        (r_pc[k] = "wait" /\ Backlog(k) > 0)
            ~> (r_pc[k] = "idle" /\ r_result[k] = "Some" /\ r_last_space[k] > 0)

\* C9 witness: a reader waits, the produce that followed its check has fired
\* its notifier.
C9_Witness ==
    \E k \in Occupied :
        /\ r_pc[k] = "wait"
        /\ Backlog(k) > 0
        /\ r_chan[k] = 1
        /\ ~readers[k].reader_notifier

\* A step in which reader k asks for its window.
ReaderRequest(k) == ReaderTrySlice(k) \/ ReaderSlice(k)

\* C10: once the writer is dropped, a reader's backlog changes only by what
\* the reader consumes off its front; a window request of a reader with
\* backlog b > 0 returns Some of exactly b items, one with backlog 0 returns
\* None; and None is returned in no other state.  So the reader is given the
\* b items of its backlog, and None from then on.
C10_EndOfStream ==
    [][\A k \in Keys :
          /\ r_result'[k] = "None" => (writer_done' /\ Backlog(k)' = 0)
          /\ (writer_done /\ k \in Occupied /\ k \in Occupied') =>
                /\ \/ pending'[k] = pending[k]
                   \/ \E n \in 1..Backlog(k) :
                        /\ ReaderConsume(k, n)
                        /\ pending'[k] = SubSeq(pending[k], n + 1, Backlog(k))
                /\ ReaderRequest(k) =>
                      IF Backlog(k) = 0
                      THEN r_result'[k] = "None"
                      ELSE /\ r_result'[k] = "Some"
                           /\ r_last_space'[k] = Backlog(k)]_vars

\* C10 witness: after the writer's drop one reader has been told None while
\* another has consumed part of the backlog a slice returned to it.
C10_Witness ==
    \E j, k \in Occupied :
        /\ writer_done
        /\ r_result[j] = "None"
        /\ r_result[k] = "Some"
        /\ Backlog(k) > 0
        /\ r_last_space[k] = Backlog(k)
        /\ readers[k].offset > readers[j].offset

\* C11: a reader waiting in slice() with backlog 0 once the writer is dropped
\* returns None.
C11_WriterDropWakesReaders ==
    \A k \in Keys :
        (r_pc[k] = "wait" /\ writer_done /\ Backlog(k) = 0)
            ~> (r_pc[k] = "idle" /\ r_result[k] = "None")

\* C11 witness: two readers wait with backlog 0, the writer's drop has queued
\* a signal for each and disarmed their notifiers.
C11_Witness ==
    /\ writer_done
    /\ Cardinality(Occupied) = 2
    /\ \A k \in Occupied : /\ r_pc[k] = "wait"
                            /\ Backlog(k) = 0
                            /\ r_chan[k] = 1
                            /\ ~readers[k].reader_notifier

\* C12: when a reader is dropped while the writer waits in recv and the span
\* over the remaining readers is then positive, a signal is queued in the
\* writer's channel; and a writer inside slice() after a reader's drop, with
\* the span positive, returns a non-empty window.
C12_ReaderDropWakesWriter ==
    /\ [][\A k \in Keys :
            (ReaderDrop(k) /\ w_pc = "wait" /\ WriterSpace' > 0) => w_chan' > 0]_vars
    /\ (w_pc \in {"wait", "retry"} /\ slab_free # << >> /\ WriterSpace > 0)
            ~> WriterReturned

\* C12 witness: the writer waits, the only full reader was dropped and its
\* notifier queued the signal; the remaining reader holds a backlog and has
\* never asked for a window, so it never consumed.
C12_Witness ==
    /\ w_pc = "wait"
    /\ w_chan = 1
    /\ slab_free # << >>
    /\ WriterSpace > 0
    /\ \E j \in Occupied : /\ Occupied = {j}
                            /\ Backlog(j) > 0
                            /\ r_result[j] = "-"

\* C13: a reader's slice or try_slice returns None exactly when the writer has
\* been dropped and the reader's backlog is 0; with the writer alive and no
\* data, try_slice returns Some of an empty slice.
C13_NoneOnlyAtEndOfStream ==
    [][\A k \in Keys :
          /\ ReaderRequest(k) =>
                (r_result'[k] = "None" <=> (writer_done /\ Backlog(k) = 0))
          /\ (ReaderTrySlice(k) /\ ~writer_done /\ Backlog(k) = 0) =>
                (r_result'[k] = "Some" /\ r_last_space'[k] = 0)
          /\ (r_result'[k] = "None" /\ k \in Occupied') =>
                (writer_done' /\ Backlog(k)' = 0)]_vars

\* C13 witness: with the writer alive, a reader that has consumed its backlog
\* was handed Some of an empty slice by try_slice.
C13_Witness ==
    \E k \in Occupied :
        /\ ~writer_done
        /\ r_pc[k] = "idle"
        /\ r_result[k] = "Some"
        /\ r_last_space[k] = 0
        /\ Backlog(k) = 0
        /\ readers[k].offset > 0

\* C14: the blocking Writer::slice returns only a non-empty window, the span
\* of the state it returns in, however often it was woken on the way; while it
\* is inside slice() the span goes from 0 to positive only by a reader's
\* consume or drop; Reader::slice returns only None or Some of a non-empty
\* window, the reader's backlog.
C14_SliceNeverReturnsEmpty ==
    [][/\ (WriterSlice /\ w_pc' = "idle") =>
             (w_last_space' > 0 /\ w_last_space' = WriterSpace')
       /\ (w_pc \in {"wait", "retry"} /\ WriterSpace = 0 /\ WriterSpace' > 0) =>
             \E k \in Keys : ReaderDrop(k) \/ \E n \in Amounts : ReaderConsume(k, n)
       /\ (w_pc \in {"wait", "retry"} /\ WriterSpace = 0) => w_pc' # "idle"
       /\ \A k \in Keys :
             (ReaderSlice(k) /\ r_pc'[k] = "idle") =>
                \/ r_result'[k] = "None"
                \/ /\ r_result'[k] = "Some"
                   /\ r_last_space'[k] > 0
                   /\ r_last_space'[k] = Backlog(k)']_vars

\* C14 witness: the writer was woken inside slice() by a reader's consume
\* while another reader is still full: the span is 0 and it has to wait again.
C14_Witness ==
    /\ w_pc = "retry"
    /\ WriterSpace = 0
    /\ \E j \in Occupied : Backlog(j) < Capacity

\* C15: add_reader gives the new reader the writer's current (offset, ab), so
\* its window has length 0; a produce(n) that finds a reader at backlog 0
\* leaves it a window of exactly the n items produced.
C15_LateReader ==
    [][/\ AddReader =>
             \A k \in Occupied' \ Occupied :
                 /\ readers'[k].offset = writer_offset
                 /\ readers'[k].ab = writer_ab
                 /\ ReaderSpace(k)' = 0
       /\ \A n \in Amounts :
             WriterProduce(n) =>
                \A k \in Occupied :
                    Backlog(k) = 0 =>
                       /\ ReaderSpace(k)' = n
                       /\ Window(buffer', readers'[k].offset, ReaderSpace(k)')
                             = Window(buffer, writer_offset, n)]_vars

\* C15 witness: a reader that attached away from offset 0 (it has never asked
\* for a window, so it has not moved) holds the one item produced since,
\* whose value differs from the item produced just before it attached.
C15_Witness ==
    \E k \in Occupied :
        /\ r_result[k] = "-"
        /\ readers[k].offset > 0
        /\ pending[k] = << 1 >>
        /\ buffer[(readers[k].offset + Capacity - 1) % Capacity] = 0
        /\ \E j \in Occupied : Backlog(j) > 1

\* C16: with no reader attached the span is Capacity in every state, whatever
\* was produced; a window request returns Capacity items, arms nothing, and
\* the blocking slice returns at once; a produce queues no signal.
C16_NoReaderNeverBlocks ==
    [][(Occupied = {} /\ ~writer_done) =>
          /\ WriterSpace = Capacity
          /\ WriterRequest =>
                /\ w_last_space' = Capacity
                /\ w_pc' = "idle"
                /\ readers' = readers
          /\ \A n \in Amounts :
                WriterProduce(n) =>
                   /\ WriterSpace' = Capacity
                   /\ readers' = readers
                   /\ r_chan' = r_chan
                   /\ w_chan' = w_chan]_vars

\* C16 witness: no reader was ever attached, the writer has produced past the
\* end of the buffer and holds a window of Capacity items at an offset away
\* from 0.
C16_Witness ==
    /\ Occupied = {}
    /\ slab_free = << >>
    /\ writer_ab
    /\ writer_offset > 0
    /\ w_pc = "idle"
    /\ w_last_space = Capacity

\* C17: a cursor only ever advances by an amount within the party's
\* last_space, so produce(n) and consume(n) with n above it are never
\* accepted: they panic; and a step in which a party panics leaves every
\* cursor, generation bit, notifier, channel, metadata and last_space as it
\* was.
C17_TooMuchPanicsFirst ==
    [][/\ (w_pc = "idle" /\ w_pc' = "panicked") =>
             /\ \E n \in Amounts : WriterProducePanic(n)
             /\ UNCHANGED << engine, w_last_space, w_chan, r_last_space, r_chan >>
       /\ << writer_offset, writer_ab >>' # << writer_offset, writer_ab >> =>
             \E n \in 1..w_last_space :
                 /\ writer_offset' = ProduceOffset(writer_offset, n)
                 /\ w_last_space' = w_last_space - n
       /\ \A k \in Keys :
             /\ (r_pc[k] = "idle" /\ r_pc'[k] = "panicked") =>
                   /\ \E n \in Amounts : ReaderConsumePanic(k, n)
                   /\ UNCHANGED << engine, w_last_space, w_chan, r_last_space,
                                   r_chan >>
             /\ (k \in Occupied /\ k \in Occupied' /\ readers'[k] # readers[k]
                    /\ r_last_space'[k] # r_last_space[k]) =>
                   \E n \in 1..r_last_space[k] :
                       /\ readers'[k].offset = ConsumeOffset(readers[k].offset, n)
                       /\ r_last_space'[k] = r_last_space[k] - n]_vars

\* C17 witness: the writer has panicked in a produce and a reader in a
\* consume, each while the span would have allowed the amount its last_space
\* did not.
C17_Witness ==
    /\ w_pc = "panicked"
    /\ w_last_space < WriterSpace
    /\ \E k \in Occupied : /\ r_pc[k] = "panicked"
                            /\ r_last_space[k] < ReaderSpace(k)

\* C18: after produce(a), a further produce(b) with no window request in
\* between is accepted exactly if a + b is within the last_space the first
\* one found, and then leaves the offset and generation bit a single
\* produce(a + b) would have left; likewise for consume.
C18_SplitCallsCompose ==
    [][\A a \in 1..Capacity :
          /\ WriterProduce(a) =>
                /\ w_last_space' = w_last_space - a
                /\ \A b \in 1..Capacity :
                      /\ (~WriterProducePanics(b))' <=> (a + b <= w_last_space)
                      /\ a + b <= w_last_space =>
                            /\ ProduceOffset(writer_offset', b)
                                  = ProduceOffset(writer_offset, a + b)
                            /\ ProduceAb(writer_ab', writer_offset', b)
                                  = ProduceAb(writer_ab, writer_offset, a + b)
          /\ \A k \in Keys :
                ReaderConsume(k, a) =>
                   /\ r_last_space'[k] = r_last_space[k] - a
                   /\ \A b \in 1..Capacity :
                         /\ (~ReaderConsumePanics(k, b))' <=> (a + b <= r_last_space[k])
                         /\ a + b <= r_last_space[k] =>
                               /\ ConsumeOffset(readers'[k].offset, b)
                                     = ConsumeOffset(readers[k].offset, a + b)
                               /\ ConsumeAb(readers'[k].ab, readers'[k].offset, b)
                                     = ConsumeAb(readers[k].ab, readers[k].offset, a + b)]_vars

\* C18 witness: the writer has produced part of a window that runs over the
\* end of the buffer, and what is left of the window, all of the span, lets
\* it produce again; the reader has never consumed.
C18_Witness ==
    \E k \in Occupied :
        /\ r_result[k] = "-"
        /\ Backlog(k) > 0
        /\ w_last_space > 0
        /\ w_last_space = WriterSpace
        /\ w_last_space + Backlog(k) = Capacity
        /\ readers[k].offset > 0

\* C19: produce(0), whatever tags come with it, and consume(0) change nothing:
\* no cursor, generation bit, notifier, channel, last_space or metadata.
C19_ZeroIsNoOp ==
    [][(WriterProduceZero \/ \E k \in Keys : ReaderConsumeZero(k)) =>
          /\ UNCHANGED << writer_offset, writer_ab, writer_done, readers, slab_free >>
          /\ UNCHANGED << w_last_space, r_last_space, w_chan, r_chan >>
          /\ UNCHANGED meta]_vars

\* C19 witness: a state in which produce(0) and consume(0) can be called and
\* there is something to change: both parties hold a window and a reader
\* holds a tag.
C19_Witness ==
    \E k \in Occupied :
        /\ w_pc = "idle" /\ w_last_space > 0
        /\ r_pc[k] = "idle" /\ r_last_space[k] > 0
        /\ meta[k] # << >>

\* C20: consume(n) by reader k moves reader k's cursor by n, shortens its
\* window by n and prunes its metadata; every other reader's cursor, bit,
\* notifiers, window length, last_space and metadata, and the writer's cursor
\* and bit, stay as they were.
C20_ReadersIndependent ==
    [][\A k \in Keys, n \in Amounts :
          ReaderConsume(k, n) =>
             /\ readers'[k].offset = (readers[k].offset + n) % Capacity
             /\ ReaderSpace(k)' = ReaderSpace(k) - n
             /\ meta'[k] = MetaConsume(meta[k], n)
             /\ UNCHANGED << writer_offset, writer_ab >>
             /\ \A j \in Keys \ {k} :
                   /\ readers'[j] = readers[j]
                   /\ ReaderSpace(j)' = ReaderSpace(j)
                   /\ r_last_space'[j] = r_last_space[j]
                   /\ meta'[j] = meta[j]]_vars

\* C20 witness: of two readers that were handed the same full window with
\* the same tag, one has consumed part of it; the other still has all of it,
\* its tag where it was.
C20_Witness ==
    \E j, k \in Occupied :
        /\ Backlog(j) = Capacity /\ r_last_space[j] = Capacity
        /\ Backlog(k) < Capacity /\ r_last_space[k] = Backlog(k)
        /\ Backlog(k) > 0
        /\ meta[j] # << >>
        /\ meta[k] # << >>
        /\ meta[k] # meta[j]

\* The size computation has left its loop with the size it chose.
SizeChosen == c_pc = "mkstemp" /\ trace = << >>

\* sz is a positive multiple of the page size, at least min_items * item_size
\* and a multiple of item_size.
Admissible(sz) ==
    /\ sz > 0
    /\ sz % PageSize = 0
    /\ sz >= min_items * item_size
    /\ sz % item_size = 0

\* C21: for all parameters the size chosen is the smallest positive multiple of
\* the page size that is at least min_items * item_size and a multiple of
\* item_size; so the capacity is at least min_items, and at least 1 when
\* min_items is 0.
C21_SizeIsSmallestAdmissible ==
    SizeChosen =>
        /\ Admissible(size)
        /\ \A sz \in 1..(size - 1) : ~Admissible(sz)
        /\ CapacityOf(size, item_size) * item_size = size
        /\ CapacityOf(size, item_size) >= min_items
        /\ min_items = 0 => CapacityOf(size, item_size) >= 1

C21_Witness ==
    /\ SizeChosen
    /\ min_items > 0
    /\ size > PageSize

RECURSIVE Gcd(_, _)
Gcd(a, b) == IF b = 0 THEN a ELSE Gcd(b, a % b)
\* The least common multiple of two positive numbers.
Lcm(a, b) == (a * b) \div Gcd(a, b)

Constructed == c_pc = "done" /\ ret = "Ok"

\* C23: in a constructed buffer item i and item i + capacity of the mapping are
\* the same item of the file, so what is written through window(0)[i] is read
\* through window(capacity)[i]; and for every offset in 0..capacity the window
\* is capacity items that are all mapped, consecutive in the mapping, and are
\* the items offset, offset + 1, ... of the ring.
C23_SecondMappingAliasesFirst ==
    Constructed =>
        LET capacity == CapacityOf(size, item_size) IN
        /\ capacity >= 1
        /\ \A v \in 0..(size - 1) :
              /\ MappedFileOffset(v) = v
              /\ MappedFileOffset(v + size) = v
              /\ v < file_len
        /\ \A i \in 0..(capacity - 1) :
              SliceWithOffset(0)[i] = SliceWithOffset(capacity)[i]
        /\ \A offset \in 0..capacity : \A i \in 0..(capacity - 1) :
              SliceWithOffset(offset)[i] = ((offset + i) % capacity) * item_size

C23_Witness ==
    /\ Constructed
    /\ item_size = 3
    /\ CapacityOf(size, item_size) = 4
    /\ attempt > 1

\* The step taken ends a call of new_try with an error.
AttemptFailed == c_pc \notin {"size", "done", "panicked"} /\ c_pc' \in {"size", "done"} /\ ret' # "Ok"

\* The step taken ends a call of new_try with Ok.
AttemptSucceeded == c_pc = "close" /\ ret' = "Ok"

\* C24: construction retries the whole procedure up to Retries times: after a
\* successful attempt new returns at once and nothing more runs; a failed
\* attempt is followed by a fresh one (size computed anew, nothing mapped) as
\* long as fewer than Retries retries were made; only the failure of attempt
\* Retries + 1 ends new, with the error of that attempt.
C24_RetriesUpToFiveTimes ==
    [][/\ c_pc # "done"
       /\ attempt' \in 1..(Retries + 1)
       /\ AttemptSucceeded => c_pc' = "done" /\ attempt' = attempt
       /\ AttemptFailed /\ attempt <= Retries =>
             /\ attempt' = attempt + 1
             /\ c_pc' = "size"
             /\ size' = PageSize
             /\ buff' = -1
       /\ AttemptFailed /\ attempt > Retries =>
             /\ attempt' = Retries + 1
             /\ c_pc' = "done"
             /\ ret' = StepError[c_pc]
       /\ c_pc' = "done" /\ ret' # "Ok" => attempt = Retries + 1 /\ AttemptFailed]_vars

C24_Witness ==
    /\ c_pc = "done"
    /\ ret = "Alignment"
    /\ attempt = Retries + 1

\* The position of a step of new_try in the program order.
StepIndex(s) == CHOOSE i \in 1..Len(StepOrder) : StepOrder[i] = s

\* The error kinds in the order the claim gives them, one per step.
ClaimedErrors == << "Create", "Unlink", "Truncate", "Placeholder", "Alignment",
                   "UnmapSecond", "MapSecond", "Truncate", "Close" >>

\* C25: an attempt runs its steps in the fixed order; a step that succeeds hands
\* over to the next one, the first step that fails ends the attempt with its own
\* error kind (Create, Unlink, Truncate, Placeholder, Alignment, UnmapSecond,
\* MapSecond, Truncate, Close) and no later step runs; the alignment step fails
\* exactly when the base address is not a multiple of the alignment; Ok is
\* returned only by the last step, after every step succeeded.
C25_FirstFailingStepDecides ==
    [][c_pc \notin {"size", "done", "panicked"} =>
          LET i == StepIndex(c_pc) IN
          /\ trace' = SubSeq(StepOrder, 1, i)
          /\ \/ /\ i < Len(StepOrder)
                /\ c_pc' = StepOrder[i + 1]
                /\ ret' = ret
                /\ attempt' = attempt
             \/ /\ i = Len(StepOrder)
                /\ c_pc' = "done"
                /\ ret' = "Ok"
                /\ buff % alignment = 0
                /\ attempt' = attempt
             \/ /\ c_pc' \in {"size", "done"}
                /\ ret' = ClaimedErrors[i]
                /\ c_pc' = "done" => attempt > Retries
          /\ c_pc = "alignment" => (c_pc' = "unmap_second" <=> buff % alignment = 0)
          /\ ret' = "Ok" => i = Len(StepOrder)]_vars

C25_Witness ==
    /\ ret = "MapSecond"
    /\ c_pc = "size"
    /\ trace = SubSeq(StepOrder, 1, 7)
    /\ attempt = 2

\* C26: the mapped region is released exactly once, and only after the writer
\* handle and every reader handle have been dropped, in whatever order; while
\* any handle is alive it stays mapped.
C26_ReleasedOnceAfterLastHandle ==
    /\ (w_pc # "dropped" \/ \E k \in Keys : ~readers[k].vacant) => munmaps = 0
    /\ (w_pc = "dropped" /\ \A k \in Keys : readers[k].vacant) => munmaps = 1

C26_Witness ==
    /\ munmaps = 1
    /\ w_pc = "dropped"
    /\ \A k \in Keys : readers[k].vacant

\* The readers whose writer_notifier is armed, and those whose reader_notifier is.
WriterNotifiersArmed == {k \in Keys : ~readers[k].vacant /\ readers[k].writer_notifier}
ReaderNotifiersArmed == {k \in Keys : ~readers[k].vacant /\ readers[k].reader_notifier}

\* C28: a window request of the writer with arm set that finds no space arms
\* the writer_notifier of exactly one reader, the first full one in key order,
\* and arms none when there is space or when arm is not set; a window request
\* of a reader arms that reader's reader_notifier exactly when its span is 0
\* and arm is set.  No request arms anything else.
C28_ArmOnlyWhenStarved ==
    [][/\ WriterSlice =>
             LET full == {k \in Occupied : Backlog(k) = Capacity} IN
             /\ WriterNotifiersArmed' =
                   WriterNotifiersArmed \cup (IF full # {} THEN {SetMin(full)} ELSE {})
             /\ ReaderNotifiersArmed' = ReaderNotifiersArmed
       /\ WriterTrySlice =>
             /\ WriterNotifiersArmed' = WriterNotifiersArmed
             /\ ReaderNotifiersArmed' = ReaderNotifiersArmed
       /\ \A k \in Keys :
             /\ ReaderSlice(k) =>
                   /\ ReaderNotifiersArmed' =
                         ReaderNotifiersArmed \cup (IF Backlog(k) = 0 THEN {k} ELSE {})
                   /\ WriterNotifiersArmed' = WriterNotifiersArmed
             /\ ReaderTrySlice(k) =>
                   /\ ReaderNotifiersArmed' = ReaderNotifiersArmed
                   /\ WriterNotifiersArmed' = WriterNotifiersArmed]_vars

\* C28 witness: the writer asked with arm set while both readers were full and
\* armed the first one only.
C28_Witness ==
    /\ w_pc = "wait"
    /\ \A k \in Keys : k \in Occupied /\ Backlog(k) = Capacity
    /\ WriterNotifiersArmed = {0}

\* C29: for the blocking and the async notifier, notify() on a disarmed
\* notifier sends nothing and changes nothing; notify() on an armed one calls
\* send exactly once, which queues one signal when the channel takes it, and
\* leaves the notifier disarmed; arm() leaves an armed notifier armed and sends
\* nothing; so the sends never outnumber the calls of arm(), and a second
\* notify() without a new arm() sends nothing.
C29_NotifierContract ==
    [][/\ (NotifierNotify /\ ~n_armed) =>
             (n_armed' = n_armed /\ n_sent' = n_sent /\ n_chan' = n_chan)
       /\ (NotifierNotify /\ n_armed) =>
             /\ n_sent' = n_sent + 1
             /\ ~n_armed'
             /\ (n_kind = "blocking" \/ n_chan = 0) => n_chan' = n_chan + 1
             /\ n_chan' <= n_chan + 1
       /\ NotifierArm => (n_armed' /\ n_sent' = n_sent /\ n_chan' = n_chan)
       /\ n_sent' <= n_arms'
       /\ n_sent' > n_sent => n_armed]_vars

\* C29 witness: arm() was called twice before the one notify() that sent.
C29_Witness ==
    /\ n_arms = 2
    /\ n_sent = 1
    /\ n_chan = 1
    /\ ~n_armed

\* Every thread of the pipeline has left its loop and dropped its handles.
AllStagesDone == \A t \in Threads : t_pc[t].at = "done"

\* C27: in the pipeline source -> NCopy copy stages -> sink over blocking
\* buffers the sink only ever holds a prefix of the source's input, and
\* eventually every thread has terminated with the sink holding exactly the
\* input.
C27_PipelineTerminates ==
    /\ [](sink_items = SubSeq(Input, 1, Len(sink_items)))
    /\ <>(AllStagesDone /\ sink_items = Input)

C27_Witness ==
    /\ AllStagesDone
    /\ sink_items = Input
    /\ \A b \in Buffers : pipe[b].writer_done /\ pipe[b].reader.vacant

\* C30: produce(n) with 0 < n <= last_space flips writer_ab exactly when
\* writer_offset + n >= Capacity (also when the sum is Capacity and the offset
\* becomes 0) and sets writer_offset to (writer_offset + n) mod Capacity;
\* consume(n) does the same to the cursor of its reader; nothing else moves a
\* cursor; every offset stays in 0..Capacity - 1, and a bit flips once for
\* each wrap: exactly when the offset did not grow by n.
C30_CursorAdvance ==
    [][/\ \A n \in 1..Capacity :
             WriterProduce(n) =>
                /\ writer_offset' = (writer_offset + n) % Capacity
                /\ (writer_ab' # writer_ab) <=> (writer_offset + n >= Capacity)
                /\ (writer_offset + n = Capacity) => (writer_offset' = 0 /\ writer_ab' # writer_ab)
                /\ (writer_ab' # writer_ab) <=> (writer_offset' # writer_offset + n)
       /\ \A k \in Keys : \A n \in 1..Capacity :
             ReaderConsume(k, n) =>
                /\ readers'[k].offset = (readers[k].offset + n) % Capacity
                /\ (readers'[k].ab # readers[k].ab) <=> (readers[k].offset + n >= Capacity)
                /\ (readers'[k].ab # readers[k].ab) <=>
                      (readers'[k].offset # readers[k].offset + n)
       /\ (writer_offset' # writer_offset \/ writer_ab' # writer_ab) =>
             \E n \in 1..Capacity : n <= w_last_space /\ WriterProduce(n)
       /\ writer_offset' \in 0..(Capacity - 1)
       /\ \A k \in Keys : readers'[k].offset \in 0..(Capacity - 1)]_vars

\* C30 witness: the writer has wrapped twice and ended on offset 0 both times;
\* a reader that lags by the whole capacity has wrapped once.
C30_Witness ==
    /\ writer_offset = 0
    /\ ~writer_ab
    /\ \E k \in Occupied :
          /\ readers[k].offset = 0
          /\ readers[k].ab
          /\ Backlog(k) = Capacity

\* C38: every failed construction attempt cleans up after itself: the step
\* that ends a call of new_try with an error leaves no address range of that
\* attempt mapped and the descriptor it opened closed.
C38_FailedAttemptCleansUp ==
    [][AttemptFailed => leaked' = leaked /\ fd' = "closed"]_vars

\* An attempt ended with Err(Alignment) and the two halves of its placeholder
\* are still mapped.
C38_Witness ==
    /\ ret = "Alignment"
    /\ leaked >= 2
    /\ fd = "closed"

\* The window of len items at item offset of the mapping lies inside the double
\* mapping and is one contiguous slice: its i-th item is item offset + i of
\* the mapping, mapped, and is the cell (offset + i) % Capacity of the buffer.
WindowInsideMapping(offset, len) ==
    /\ offset >= 0
    /\ offset < CapacityOf(size, item_size)
    /\ offset + len <= 2 * CapacityOf(size, item_size)
    /\ \A i \in 0..(len - 1) :
          /\ (offset + i) * item_size + item_size <= 2 * size
          /\ SliceWithOffset(offset)[i] # -1
          /\ SliceWithOffset(offset)[i] = ((offset + i) % Capacity) * item_size

\* C34: every window the engine hands out lies inside the double mapping: the
\* offset given to slice_with_offset(_mut) is below the capacity and offset
\* plus the window's length is at most twice the capacity, for the writer's
\* window and for the window of every attached reader, so a window that
\* crosses the end of the buffer is still one contiguous slice of the mapping.
C34_WindowInsideMapping ==
    /\ CapacityOf(size, item_size) = Capacity
    /\ WindowInsideMapping(writer_offset, w_last_space)
    /\ \A k \in Occupied : WindowInsideMapping(readers[k].offset, r_last_space[k])

\* A reader holds a window of Capacity items that starts past item 0 and so
\* runs over the end of the buffer into the second mapping.
C34_Witness ==
    \E k \in Occupied :
        /\ readers[k].offset > 0
        /\ r_last_space[k] = Capacity
        /\ readers[k].offset + r_last_space[k] > Capacity

\* The tags of list m at index c or later, in order, each moved down by c.
TagsFrom(m, c) ==
    LET kept == SelectSeq(m, LAMBDA x : x >= c)
    IN [j \in 1..Len(kept) |-> kept[j] - c]

\* The number of items a cursor moved by, from offset o and bit ab to offset
\* o2 and bit ab2, in one call.
Advance(o, ab, o2, ab2) ==
    IF o2 = o THEN (IF ab2 = ab THEN 0 ELSE Capacity)
    ELSE (o2 - o + Capacity) % Capacity

\* C32: a tag passed on item i of produce(n, tags) while reader r has backlog b
\* is reported to r at index b + i: a step that produces n items appends to
\* what each attached reader is reported one same list of tags on items below
\* n, shifted by that reader's backlog.  consume(c) by r moves every tag r is
\* reported from index x to x - c if c <= x and ends its reporting if c > x;
\* nothing else changes what an attached reader is reported.  So after r
\* consumed c items since the produce the tag is reported at b + i - c while
\* c <= b + i and not at all afterwards, each reader by its own backlog and
\* consumption; a reported tag always lies on an item of the reader's backlog.
C32_MetadataAttribution ==
    /\ [][LET n == Advance(writer_offset, writer_ab, writer_offset', writer_ab') IN
          n > 0 =>
             \E tags \in TagLists(n) :
                \A k \in Occupied :
                   /\ Len(MetaGet(meta'[k])) = Len(MetaGet(meta[k])) + Len(tags)
                   /\ \A j \in 1..Len(meta[k]) :
                         MetaGet(meta'[k])[j] = MetaGet(meta[k])[j]
                   /\ \A j \in 1..Len(tags) :
                         MetaGet(meta'[k])[Len(meta[k]) + j] = Backlog(k) + tags[j]]_vars
    /\ [][\A k \in Occupied :
             k \in Occupied' =>
                LET c == Advance(readers[k].offset, readers[k].ab,
                                 readers'[k].offset, readers'[k].ab)
                IN /\ c > 0 => /\ MetaGet(meta'[k]) = TagsFrom(MetaGet(meta[k]), c)
                               /\ \A j \in Keys \ {k} : meta'[j] = meta[j]
                   /\ c = 0 /\ writer_offset' = writer_offset /\ writer_ab' = writer_ab
                         => meta'[k] = meta[k]]_vars
    /\ [](\A k \in Occupied : \A j \in 1..Len(meta[k]) :
             MetaGet(meta[k])[j] \in 0..(Backlog(k) - 1))

\* Two readers were given the same tag by one produce; one has since consumed
\* an item and is reported the tag one index lower than the other, which has
\* consumed nothing.
C32_Witness ==
    \E j, k \in Occupied :
        /\ Backlog(j) = 2 /\ MetaGet(meta[j]) = << 1 >>
        /\ Backlog(k) = 1 /\ MetaGet(meta[k]) = << 0 >>

\* C35: the writer's remaining last_space never exceeds the span writable now
\* and an attached reader's remaining last_space never exceeds the span it can
\* read now; a step the party does not take itself never shortens its span.
\* So the debug assertions of produce and consume hold for every n up to
\* last_space.
C35_LastSpaceWithinSpan ==
    /\ [](w_last_space <= WriterSpace)
    /\ [](\A k \in Occupied : r_last_space[k] <= ReaderSpace(k))
    /\ [][writer_offset' = writer_offset /\ writer_ab' = writer_ab
             => WriterSpace' >= WriterSpace]_vars
    /\ [][\A k \in Occupied :
             /\ k \in Occupied'
             /\ readers'[k].offset = readers[k].offset
             /\ readers'[k].ab = readers[k].ab
             => ReaderSpace(k)' >= ReaderSpace(k)]_vars
    /\ [](\A n \in 1..w_last_space : ~WriterProducePanics(n))
    /\ [](\A k \in Occupied : \A n \in 1..r_last_space[k] : ~ReaderConsumePanics(k, n))

\* A reader holds part of an earlier window while the writer has produced
\* since: its span has grown past its last_space; and a second reader was
\* attached after the writer's last window request.
C35_Witness ==
    \E k \in Occupied :
        /\ r_last_space[k] > 0
        /\ r_last_space[k] < ReaderSpace(k)
        /\ \E j \in Occupied \ {k} : ReaderSpace(j) < ReaderSpace(k)

\* C36: in the blocking facade at most one writer_notifier is armed, and the
\* armed writer_notifiers and the signals queued in the writer's channel are
\* together at most one; for every reader its reader_notifier, if armed, and
\* the signals queued in its channel are together at most one.
C36_SignalsNeverAccumulate ==
    /\ Cardinality(WriterNotifiersArmed) <= 1
    /\ Cardinality(WriterNotifiersArmed) + w_chan <= 1
    /\ \A k \in Keys :
          (IF k \in ReaderNotifiersArmed THEN 1 ELSE 0) + r_chan[k] <= 1

\* The writer and a reader both wait in slice(), each with the one signal of
\* the notifier it armed queued in its channel and that notifier disarmed.
C36_Witness ==
    /\ w_pc = "wait"
    /\ w_chan = 1
    /\ WriterNotifiersArmed = {}
    /\ \E k \in Occupied :
          /\ r_pc[k] = "wait"
          /\ r_chan[k] = 1
          /\ k \notin ReaderNotifiersArmed

\* The writer waits in slice() with no signal to take.
WriterSleeps == w_pc = "wait" /\ w_chan = 0

\* Reader k waits in slice() with no signal to take.
ReaderSleeps(k) == r_pc[k] = "wait" /\ r_chan[k] = 0

\* C37: the blocking facade has no state in which the writer waits in slice()
\* and every attached reader waits in slice() with no signal queued for any of
\* them; while the writer so waits some attached reader holds a positive
\* backlog and is not asleep: it is outside slice(), or about to ask again, or
\* has a signal to take.
C37_NoDeadlock ==
    /\ ~(WriterSleeps /\ \A k \in Occupied : ReaderSleeps(k))
    /\ WriterSleeps =>
          \E k \in Occupied : Backlog(k) > 0 /\ ~ReaderSleeps(k)

\* The writer sleeps in slice() on a full buffer and every attached reader is
\* inside slice() as well; the reader the writer armed has the signal of the
\* produce that filled the buffer still to take.
C37_Witness ==
    /\ WriterSleeps
    /\ Occupied # {}
    /\ \A k \in Occupied : r_pc[k] = "wait"
    /\ \E k \in WriterNotifiersArmed : r_chan[k] = 1 /\ Backlog(k) = Capacity

(***************************************************************************)
(* The engine's critical sections, statement by statement                  *)
(***************************************************************************)

\* self.state.lock() by the writer and by the reader with key k: the call
\* returns when nobody holds the mutex; pc is where the thread then is.
WriterLocks(pc) ==
    /\ mutex = Unlocked
    /\ mutex' = HeldByWriter
    /\ w_pc' = pc
ReaderLocks(k, pc) ==
    /\ mutex = Unlocked
    /\ mutex' = HeldByReader(k)
    /\ r_pc' = [r_pc EXCEPT ![k] = pc]

\* Writer::add_reader: lock.
AddReaderLock ==
    /\ w_pc = "idle"
    /\ Cardinality(Occupied) < LockedReaders
    /\ WriterLocks("add_reader")
    /\ UNCHANGED << engine, w_last_space, w_chan, r_last_space, r_pc, r_chan,
                    r_result, buffer, pending, starved, relieved, munmaps,
                    w_call, r_call, mapping, notifier, pipeline >>

\* Writer::add_reader: the insert into the slab; the guard is dropped on return.
AddReaderBody ==
    /\ w_pc = "add_reader"
    /\ mutex = HeldByWriter
    /\ LET id == SlabInsertKey IN
       /\ readers' = [readers EXCEPT ![id] = ReaderState(writer_ab, writer_offset)]
       /\ slab_free' = IF slab_free # << >> THEN Tail(slab_free) ELSE slab_free
       /\ r_last_space' = [r_last_space EXCEPT ![id] = 0]
       /\ r_pc' = [r_pc EXCEPT ![id] = "idle"]
       /\ r_chan' = [r_chan EXCEPT ![id] = 0]
       /\ r_result' = [r_result EXCEPT ![id] = "-"]
       /\ meta' = [meta EXCEPT ![id] = MetaNew]
       /\ pending' = [pending EXCEPT ![id] = << >>]
       /\ r_call' = [r_call EXCEPT ![id] = 0]
    /\ mutex' = Unlocked
    /\ w_pc' = "idle"
    /\ UNCHANGED << writer_offset, writer_ab, writer_done, w_last_space, w_chan,
                    buffer, starved, relieved, munmaps, w_call,
                    mapping, notifier, pipeline >>

\* Writer::space_and_offset(arm) inside Writer::slice(arm): lock.  arm is set
\* by sync::Writer::slice, one turn of its loop, and not by try_slice.
SpaceAndOffsetLock(arm) ==
    /\ w_pc \in (IF arm THEN {"idle", "retry"} ELSE {"idle"})
    /\ WriterLocks(IF arm THEN "slice" ELSE "try_slice")
    /\ UNCHANGED << engine, w_last_space, w_chan, r_last_space, r_pc, r_chan,
                    r_result, buffer, pending, starved, relieved, munmaps,
                    w_call, r_call, mapping, notifier, pipeline >>

\* Writer::space_and_offset: the loop over the readers and the arming; the
\* guard is dropped on return, Writer::slice sets last_space, and
\* sync::Writer::slice goes to recv on an empty window.
SpaceAndOffsetBodyKeepsLock ==
    /\ w_pc \in {"slice", "try_slice"}
    /\ mutex = HeldByWriter
    /\ WriterWindowRequest(w_pc = "slice")
    /\ mutex' = IF w_pc = "slice" /\ w_last_space' = 0 THEN mutex ELSE Unlocked
    /\ w_pc' = IF w_pc = "slice" /\ w_last_space' = 0 THEN "wait" ELSE "idle"
    /\ UNCHANGED << writer_offset, writer_ab, writer_done, slab_free, meta, w_chan,
                    r_last_space, r_pc, r_chan, r_result, buffer, pending, munmaps,
                    w_call, r_call, mapping, notifier, pipeline >>
SpaceAndOffsetBody ==
    /\ w_pc \in {"slice", "try_slice"}
    /\ mutex = HeldByWriter
    /\ WriterWindowRequest(w_pc = "slice")
    /\ mutex' = Unlocked
    /\ w_pc' = IF w_pc = "slice" /\ w_last_space' = 0 THEN "wait" ELSE "idle"
    /\ UNCHANGED << writer_offset, writer_ab, writer_done, slab_free, meta, w_chan,
                    r_last_space, r_pc, r_chan, r_result, buffer, pending, munmaps,
                    w_call, r_call, mapping, notifier, pipeline >>

\* Writer::produce(n), 0 < n <= last_space: the lock of the space_and_offset
\* inside its debug_assert!.
ProduceAssertLock(n) ==
    /\ DebugAssertions
    /\ w_pc = "idle"
    /\ n > 0
    /\ n <= w_last_space
    /\ WriterLocks("produce_assert")
    /\ w_call' = CallOf(n, writer_offset, writer_ab)
    /\ UNCHANGED << engine, w_last_space, w_chan, r_last_space, r_pc, r_chan,
                    r_result, buffer, pending, starved, relieved, munmaps,
                    r_call, mapping, notifier, pipeline >>

\* Writer::produce: the space computed for the debug_assert!, the guard of
\* space_and_offset dropped, and the assertion.
ProduceAssertBody ==
    /\ w_pc = "produce_assert"
    /\ mutex = HeldByWriter
    /\ mutex' = Unlocked
    /\ w_pc' = IF WriterSpace >= w_call.n THEN "produce" ELSE "panicked"
    /\ UNCHANGED << engine, w_last_space, w_chan, r_last_space, r_pc, r_chan,
                    r_result, buffer, pending, starved, relieved, munmaps,
                    w_call, r_call, mapping, notifier, pipeline >>

\* Writer::produce: last_space -= n and lock.
ProduceLock ==
    /\ w_pc = "produce"
    /\ WriterLocks("produce_locked")
    /\ w_last_space' = w_last_space - w_call.n
    /\ UNCHANGED << engine, w_chan, r_last_space, r_pc, r_chan,
                    r_result, buffer, pending, starved, relieved, munmaps,
                    w_call, r_call, mapping, notifier, pipeline >>

\* Writer::produce: the loop over the readers, meta.add and
\* reader_notifier.notify() for each; the facade passes no tags.
ProduceNotifyUnlocks ==
    /\ w_pc = "produce_locked"
    /\ mutex = HeldByWriter
    /\ meta' = [k \in Keys |-> IF readers[k].vacant THEN meta[k]
                                ELSE MetaAdd(meta[k], ReaderSpace(k), << >>)]
    /\ readers' = NotifyReaders(readers)
    /\ r_chan' = ReaderChanAfterNotify
    /\ w_pc' = "produce_notified"
    /\ mutex' = Unlocked
    /\ UNCHANGED << writer_offset, writer_ab, writer_done, slab_free, w_last_space,
                    w_chan, r_last_space, r_pc, r_result, buffer, pending, starved,
                    relieved, munmaps, w_call, r_call,
                    mapping, notifier, pipeline >>
ProduceNotify ==
    /\ w_pc = "produce_locked"
    /\ mutex = HeldByWriter
    /\ meta' = [k \in Keys |-> IF readers[k].vacant THEN meta[k]
                                ELSE MetaAdd(meta[k], ReaderSpace(k), << >>)]
    /\ readers' = NotifyReaders(readers)
    /\ r_chan' = ReaderChanAfterNotify
    /\ w_pc' = "produce_notified"
    /\ UNCHANGED << writer_offset, writer_ab, writer_done, slab_free, w_last_space,
                    w_chan, r_last_space, r_pc, r_result, buffer, pending, starved,
                    relieved, munmaps, mutex, w_call, r_call,
                    mapping, notifier, pipeline >>

\* Writer::produce: the generation bit and the cursor advance; the guard is
\* dropped on return.
ProduceAdvance ==
    /\ w_pc = "produce_notified"
    /\ writer_ab' = ProduceAb(writer_ab, writer_offset, w_call.n)
    /\ writer_offset' = ProduceOffset(writer_offset, w_call.n)
    /\ pending' = [k \in Keys |-> IF readers[k].vacant THEN pending[k]
                                  ELSE pending[k] \o Window(buffer, writer_offset, w_call.n)]
    /\ mutex' = Unlocked
    /\ w_pc' = "idle"
    /\ w_call' = NoCall
    /\ UNCHANGED << writer_done, readers, slab_free, meta, w_last_space, w_chan,
                    r_last_space, r_pc, r_chan, r_result, buffer, starved, relieved,
                    munmaps, r_call, mapping, notifier, pipeline >>

\* Drop for Writer: lock.
WriterDropLock ==
    /\ w_pc = "idle"
    /\ WriterLocks("drop")
    /\ UNCHANGED << engine, w_last_space, w_chan, r_last_space, r_pc, r_chan,
                    r_result, buffer, pending, starved, relieved, munmaps,
                    w_call, r_call, mapping, notifier, pipeline >>

\* Drop for Writer: writer_done and the notify of every reader; then the
\* guard, the receiver and the writer's clone of the buffer are dropped.
WriterDropBody ==
    /\ w_pc = "drop"
    /\ mutex = HeldByWriter
    /\ writer_done' = TRUE
    /\ readers' = NotifyReaders(readers)
    /\ r_chan' = ReaderChanAfterNotify
    /\ mutex' = Unlocked
    /\ w_pc' = "dropped"
    /\ munmaps' = MunmapsAfterDrop
    /\ w_last_space' = 0
    /\ w_chan' = 0
    /\ starved' = {}
    /\ relieved' = {}
    /\ UNCHANGED << writer_offset, writer_ab, slab_free, meta, r_last_space, r_pc,
                    r_result, buffer, pending, w_call, r_call,
                    mapping, notifier, pipeline >>

\* Reader::space_and_offset_and_meta(arm) inside Reader::slice(arm): lock.
ReaderSpaceLock(k, arm) ==
    /\ r_pc[k] \in (IF arm THEN {"idle", "retry"} ELSE {"idle"})
    /\ ReaderLocks(k, IF arm THEN "slice" ELSE "try_slice")
    /\ UNCHANGED << engine, w_last_space, w_pc, w_chan, r_last_space, r_chan,
                    r_result, buffer, pending, starved, relieved, munmaps,
                    w_call, r_call, mapping, notifier, pipeline >>

\* Reader::space_and_offset_and_meta: the span and the arming; the guard is
\* dropped on return, Reader::slice sets last_space, and sync::Reader::slice
\* goes to recv on Some([]).
ReaderSpaceBody(k) ==
    /\ r_pc[k] \in {"slice", "try_slice"}
    /\ mutex = HeldByReader(k)
    /\ ReaderWindowRequest(k, r_pc[k] = "slice")
    /\ mutex' = Unlocked
    /\ r_pc' = [r_pc EXCEPT ![k] =
                   IF r_pc[k] = "slice" /\ r_result'[k] = "Some" /\ r_last_space'[k] = 0
                   THEN "wait" ELSE "idle"]
    /\ UNCHANGED << writer_offset, writer_ab, writer_done, slab_free, meta,
                    w_last_space, w_pc, w_chan, r_chan, buffer, pending, starved,
                    relieved, munmaps, w_call, r_call,
                    mapping, notifier, pipeline >>

\* Reader::consume(n), 0 < n <= last_space: the lock of the
\* space_and_offset_and_meta inside its debug_assert!.
ConsumeAssertLock(k, n) ==
    /\ DebugAssertions
    /\ r_pc[k] = "idle"
    /\ n > 0
    /\ n <= r_last_space[k]
    /\ ReaderLocks(k, "consume_assert")
    /\ r_call' = [r_call EXCEPT ![k] = n]
    /\ UNCHANGED << engine, w_last_space, w_pc, w_chan, r_last_space, r_chan,
                    r_result, buffer, pending, starved, relieved, munmaps,
                    w_call, mapping, notifier, pipeline >>

\* Reader::consume: the span computed for the debug_assert!, the guard
\* dropped, and the assertion.
ConsumeAssertBody(k) ==
    /\ r_pc[k] = "consume_assert"
    /\ mutex = HeldByReader(k)
    /\ mutex' = Unlocked
    /\ r_pc' = [r_pc EXCEPT ![k] =
                   IF ReaderSpace(k) >= r_call[k] THEN "consume" ELSE "panicked"]
    /\ UNCHANGED << engine, w_last_space, w_pc, w_chan, r_last_space, r_chan,
                    r_result, buffer, pending, starved, relieved, munmaps,
                    w_call, r_call, mapping, notifier, pipeline >>

\* Reader::consume: last_space -= n and lock.
ConsumeLock(k) ==
    /\ r_pc[k] = "consume"
    /\ ReaderLocks(k, "consume_locked")
    /\ r_last_space' = [r_last_space EXCEPT ![k] = r_last_space[k] - r_call[k]]
    /\ UNCHANGED << engine, w_last_space, w_pc, w_chan, r_chan,
                    r_result, buffer, pending, starved, relieved, munmaps,
                    w_call, r_call, mapping, notifier, pipeline >>

\* Reader::consume: meta.consume, the bit and the cursor advance, then
\* writer_notifier.notify(); the guard is dropped on return.
ConsumeBody(k) ==
    /\ r_pc[k] = "consume_locked"
    /\ mutex = HeldByReader(k)
    /\ readers' = [readers EXCEPT
                     ![k].ab = ConsumeAb(readers[k].ab, readers[k].offset, r_call[k]),
                     ![k].offset = ConsumeOffset(readers[k].offset, r_call[k]),
                     ![k].writer_notifier = FALSE]
    /\ meta' = [meta EXCEPT ![k] = MetaConsume(meta[k], r_call[k])]
    /\ w_chan' = WriterChanAfterNotify(readers[k])
    /\ pending' = [pending EXCEPT ![k] = SubSeq(pending[k], r_call[k] + 1, Len(pending[k]))]
    /\ starved' = starved \ {k}
    /\ relieved' = IF k \in starved THEN relieved \cup {k} ELSE relieved
    /\ mutex' = Unlocked
    /\ r_pc' = [r_pc EXCEPT ![k] = "idle"]
    /\ r_call' = [r_call EXCEPT ![k] = 0]
    /\ UNCHANGED << writer_offset, writer_ab, writer_done, slab_free, w_last_space,
                    w_pc, r_last_space, r_chan, r_result, buffer, munmaps, w_call,
                    mapping, notifier, pipeline >>

\* Drop for Reader: lock.
ReaderDropLock(k) ==
    /\ r_pc[k] = "idle"
    /\ ReaderLocks(k, "drop")
    /\ UNCHANGED << engine, w_last_space, w_pc, w_chan, r_last_space, r_chan,
                    r_result, buffer, pending, starved, relieved, munmaps,
                    w_call, r_call, mapping, notifier, pipeline >>

\* Drop for Reader: the removal from the slab and writer_notifier.notify();
\* then the guard, the receiver and the reader's clone of the buffer are
\* dropped.
ReaderDropBody(k) ==
    /\ r_pc[k] = "drop"
    /\ mutex = HeldByReader(k)
    /\ readers' = [readers EXCEPT ![k] = Vacant]
    /\ slab_free' = << k >> \o slab_free
    /\ munmaps' = MunmapsAfterDrop
    /\ w_chan' = WriterChanAfterNotify(readers[k])
    /\ r_last_space' = [r_last_space EXCEPT ![k] = 0]
    /\ mutex' = Unlocked
    /\ r_pc' = [r_pc EXCEPT ![k] = "absent"]
    /\ r_chan' = [r_chan EXCEPT ![k] = 0]
    /\ r_result' = [r_result EXCEPT ![k] = "-"]
    /\ meta' = [meta EXCEPT ![k] = MetaNew]
    /\ pending' = [pending EXCEPT ![k] = << >>]
    /\ starved' = starved \ {k}
    /\ relieved' = relieved \ {k}
    /\ UNCHANGED << writer_offset, writer_ab, writer_done, w_last_space, w_pc,
                    buffer, w_call, r_call, mapping, notifier, pipeline >>

\* The blocking facade with every critical section of the engine taken apart:
\* a call that needs the mutex starts when nobody holds it, and the statements
\* under the mutex are steps of their own.  At most LockedReaders readers are
\* attached at a time.
NextLocked ==
    \/ AddReaderLock
    \/ AddReaderBody
    \/ \E arm \in BOOLEAN : SpaceAndOffsetLock(arm)
    \/ SpaceAndOffsetBody
    \/ WriterRecv
    \/ \E n \in Amounts : ProduceAssertLock(n)
    \/ ProduceAssertBody
    \/ ProduceLock
    \/ ProduceNotify
    \/ ProduceAdvance
    \/ WriterDropLock
    \/ WriterDropBody
    \/ \E k \in Keys, arm \in BOOLEAN : ReaderSpaceLock(k, arm)
    \/ \E k \in Keys : ReaderSpaceBody(k)
    \/ \E k \in Keys : ReaderRecv(k)
    \/ \E k \in Keys, n \in Amounts : ConsumeAssertLock(k, n)
    \/ \E k \in Keys : ConsumeAssertBody(k)
    \/ \E k \in Keys : ConsumeLock(k)
    \/ \E k \in Keys : ConsumeBody(k)
    \/ \E k \in Keys : ReaderDropLock(k)
    \/ \E k \in Keys : ReaderDropBody(k)

SpecLocked == Init /\ [][NextLocked]_vars

\* The step taken is the loop of produce calling notify() on the
\* reader_notifier of every attached reader, at least one being attached.
NotifyInvoked == w_pc = "produce_locked" /\ w_pc' = "produce_notified" /\ Occupied # {}

\* The writer's cursor and bit are those the produce in progress found.
CursorAsFound == writer_offset = w_call.offset /\ writer_ab = w_call.ab

\* The writer's cursor and bit reflect the n items of the produce in progress.
CursorReflectsProduce ==
    /\ writer_offset = (w_call.offset + w_call.n) % Capacity
    /\ writer_ab = (IF w_call.offset + w_call.n >= Capacity THEN ~w_call.ab ELSE w_call.ab)

WriterOutside == w_pc \in {"idle", "wait", "retry", "panicked", "dropped"}
ReaderOutside(k) == r_pc[k] \in {"absent", "idle", "wait", "retry", "panicked"}

\* The next statement of the party that holds the mutex.
WriterSection ==
    \/ AddReaderBody
    \/ SpaceAndOffsetBody
    \/ ProduceAssertBody
    \/ ProduceNotify
    \/ ProduceAdvance
    \/ WriterDropBody
ReaderSection(k) ==
    \/ ReaderSpaceBody(k)
    \/ ConsumeAssertBody(k)
    \/ ConsumeBody(k)
    \/ ReaderDropBody(k)

\* C33: nobody waits while holding the state mutex.  The mutex is held only
\* inside a call of the engine and is released by the step that ends the
\* critical section: a party that is between calls or blocked in recv does not
\* hold it.  A party enters recv by the step that ends its window request,
\* with its notifier armed and the mutex released in that step.  Whoever
\* holds the mutex can take its next statement whatever the others do, so a
\* sleeping party keeps nobody from the mutex.
C33_NeverWaitsHoldingMutex ==
    /\ [](mutex = HeldByWriter => ~WriterOutside)
    /\ [](\A k \in Keys : mutex = HeldByReader(k) => ~ReaderOutside(k))
    /\ [](w_pc = "wait" => mutex # HeldByWriter)
    /\ [](\A k \in Keys : r_pc[k] = "wait" => mutex # HeldByReader(k))
    /\ [][w_pc' = "wait" /\ w_pc # "wait" =>
             /\ mutex = HeldByWriter
             /\ mutex' = Unlocked
             /\ WriterNotifiersArmed' # {}]_vars
    /\ [][\A k \in Keys :
             r_pc'[k] = "wait" /\ r_pc[k] # "wait" =>
                /\ mutex = HeldByReader(k)
                /\ mutex' = Unlocked
                /\ k \in ReaderNotifiersArmed']_vars
    /\ [](mutex = HeldByWriter => ENABLED WriterSection)
    /\ [](\A k \in Keys : mutex = HeldByReader(k) => ENABLED ReaderSection(k))
    /\ [](mutex \in {Unlocked, HeldByWriter} \cup {HeldByReader(k) : k \in Keys})

\* The writer sleeps in recv, its notifier armed, while a reader is inside the
\* critical section of consume.
C33_Witness ==
    /\ w_pc = "wait"
    /\ w_chan = 0
    /\ WriterNotifiersArmed # {}
    /\ \E k \in Occupied : mutex = HeldByReader(k) /\ r_pc[k] = "consume_locked"

====
